---- MODULE Spec2Model ----
(***************************************************************************)
(* lox-linein-bridge: the control loop (src/main.rs), the Status Register  *)
(* and the ingest client (src/stream.rs), and the capture queue            *)
(* (src/audio.rs), as one state machine.                                   *)
(*                                                                         *)
(* Time is the monotonic clock in milliseconds.  Option<T> is a sequence   *)
(* of length 0 (None) or 1 (Some).                                         *)
(***************************************************************************)
EXTENDS Integers, Sequences, FiniteSets, TLC

None == <<>>
Some(x) == <<x>>
IsSome(o) == o # <<>>
Unwrap(o) == o[1]
Min(a, b) == IF a <= b THEN a ELSE b

(***************************************************************************)
(* Bounds of the model.                                                    *)
(***************************************************************************)
\* the clock stops after MaxNow ticks of TickMs
MaxNow == 6
\* ingest sessions the supervisor starts in one run
MaxSessions == 2
\* chunks the capture callback leaves waiting in the queue in the timed runs
MaxPending == 1
DialsKept == 16
MaxData == 5
MaxChannels == 3
MaxCallbacks == 3
MaxSamples == 4
\* next_delay() calls per Backoff in the Backoff harness
MaxCalls == 8

TickMs == 1000
STATUS_PERIOD_MS == 5000
TRACK_GAP_MS == 2000
BACKOFF_START_S == 1
BACKOFF_CAP_S == 30
CHUNK_QUEUE_CAP == 8
ERR_QUEUE_CAP == 4
DEFAULT_VAD_THRESHOLD_DB == -45
DEFAULT_VAD_HOLD_MS == 2000
DEFAULT_TARGET_RATE == 48000
TARGET_CHANNELS == 2
I16_MAX == 32767

(***************************************************************************)
(* Values the server and the environment supply.                           *)
(***************************************************************************)
InputIds == {"in1", "in2"}
WsUrls == {"ws://srv/ingest"}
TcpHosts == {"srv"}
TcpPorts == {7000}
Devices == {"hw:0"}
\* besides the defaults -45 dB, 2000 ms, 48000 Hz and "sinc"
Thresholds == {-30}
Holds == {500}
Rates == {44100}
ResamplerNames == {"linear", "bogus"}
DeviceLists == {<<"hw:0">>, <<"hw:0", "hw:1">>}
ResamplerModes == {"Linear", "SincFast", "SincQuality"}

Opt(S) == {None} \cup {Some(x) : x \in S}

\* models::BridgeConfigResponse as main.rs reads it
Responses ==
    [assigned_input_id : Opt(InputIds), ingest_ws_url : Opt(WsUrls),
     ingest_tcp_host : Opt(TcpHosts), ingest_tcp_port : Opt(TcpPorts),
     capture_device : Opt(Devices), vad_threshold_db : Opt(Thresholds),
     vad_hold_ms : Opt(Holds), ingest_sample_rate : Opt(Rates),
     ingest_resampler : Opt(ResamplerNames)]

(***************************************************************************)
(* audio.rs: ResamplerMode::parse, and main.rs: parse_resampler            *)
(***************************************************************************)
ResamplerMode_parse(name) ==
    CASE name \in {"linear", "basic"} -> Some("Linear")
      [] name \in {"sinc", "rubato", "quality", "hq"} -> Some("SincQuality")
      [] name \in {"sinc-fast", "fast", "medium"} -> Some("SincFast")
      [] OTHER -> None

parse_resampler(value) ==
    IF IsSome(value) /\ IsSome(ResamplerMode_parse(Unwrap(value)))
    THEN Unwrap(ResamplerMode_parse(Unwrap(value)))
    ELSE "SincQuality"

(***************************************************************************)
(* main.rs: RuntimeConfig                                                  *)
(***************************************************************************)
from_response(response) ==
    [assigned_input_id |-> response.assigned_input_id,
     ingest_ws_url |-> response.ingest_ws_url,
     ingest_tcp_host |-> response.ingest_tcp_host,
     ingest_tcp_port |-> response.ingest_tcp_port,
     capture_device |-> response.capture_device,
     vad_threshold_db |-> IF IsSome(response.vad_threshold_db)
                          THEN Unwrap(response.vad_threshold_db)
                          ELSE DEFAULT_VAD_THRESHOLD_DB,
     vad_hold_ms |-> IF IsSome(response.vad_hold_ms)
                     THEN Unwrap(response.vad_hold_ms)
                     ELSE DEFAULT_VAD_HOLD_MS,
     target_rate |-> IF IsSome(response.ingest_sample_rate)
                     THEN Unwrap(response.ingest_sample_rate)
                     ELSE DEFAULT_TARGET_RATE,
     resampler |-> parse_resampler(response.ingest_resampler)]

\* the fields update() overwrites whenever the reply differs, absent or not
update_option_fields(self, response) ==
    [self EXCEPT !.assigned_input_id = response.assigned_input_id,
                 !.ingest_ws_url = response.ingest_ws_url,
                 !.ingest_tcp_host = response.ingest_tcp_host,
                 !.ingest_tcp_port = response.ingest_tcp_port,
                 !.capture_device = response.capture_device]

\* the fields update() overwrites only when the reply carries them
update_present_fields(self, response) ==
    [self EXCEPT !.target_rate = IF IsSome(response.ingest_sample_rate)
                                 THEN Unwrap(response.ingest_sample_rate) ELSE @,
                 !.resampler = IF IsSome(response.ingest_resampler)
                               THEN parse_resampler(response.ingest_resampler) ELSE @,
                 !.vad_threshold_db = IF IsSome(response.vad_threshold_db)
                                      THEN Unwrap(response.vad_threshold_db) ELSE @,
                 !.vad_hold_ms = IF IsSome(response.vad_hold_ms)
                                 THEN Unwrap(response.vad_hold_ms) ELSE @]

\* an update() that returns Some whatever the reply
update_changed_always(self, response) == TRUE

\* the `changed` flag of update(): raised by each comparison that assigns.  The
\* thresholds are whole dB, so two of them differ by more than f32::EPSILON
\* exactly when they differ
update_changed(self, response) ==
    \/ response.assigned_input_id # self.assigned_input_id
    \/ response.ingest_ws_url # self.ingest_ws_url
    \/ response.ingest_tcp_host # self.ingest_tcp_host
    \/ response.ingest_tcp_port # self.ingest_tcp_port
    \/ response.capture_device # self.capture_device
    \/ /\ IsSome(response.ingest_sample_rate)
       /\ Unwrap(response.ingest_sample_rate) # self.target_rate
    \/ /\ IsSome(response.ingest_resampler)
       /\ parse_resampler(response.ingest_resampler) # self.resampler
    \/ /\ IsSome(response.vad_threshold_db)
       /\ Unwrap(response.vad_threshold_db) # self.vad_threshold_db
    \/ /\ IsSome(response.vad_hold_ms)
       /\ Unwrap(response.vad_hold_ms) # self.vad_hold_ms

\* RuntimeConfig::update: the merged configuration, and whether update()
\* returned Some (a field changed)
update(self, response) ==
    LET merged == update_present_fields(update_option_fields(self, response), response)
    IN  [config |-> merged, changed |-> update_changed(self, response)]

\* is_ready without the port: a TCP host alone counts as a transport
is_ready_no_port(self) ==
    /\ IsSome(self.assigned_input_id)
    /\ IsSome(self.capture_device)
    /\ \/ IsSome(self.ingest_ws_url)
       \/ IsSome(self.ingest_tcp_host)

is_ready(self) ==
    /\ IsSome(self.assigned_input_id)
    /\ IsSome(self.capture_device)
    /\ \/ IsSome(self.ingest_ws_url)
       \/ IsSome(self.ingest_tcp_host) /\ IsSome(self.ingest_tcp_port)

\* a target that prefers TCP when both transports are configured
ingest_target_prefers_tcp(self) ==
    IF IsSome(self.ingest_tcp_host) /\ IsSome(self.ingest_tcp_port)
       /\ IsSome(self.assigned_input_id)
    THEN Some([kind |-> "Tcp", host |-> Unwrap(self.ingest_tcp_host),
               port |-> Unwrap(self.ingest_tcp_port),
               header |-> Unwrap(self.assigned_input_id)])
    ELSE IF IsSome(self.ingest_ws_url)
         THEN Some([kind |-> "Ws", url |-> Unwrap(self.ingest_ws_url)])
         ELSE None

\* stream::IngestTarget, or None
ingest_target(self) ==
    IF IsSome(self.ingest_ws_url)
    THEN Some([kind |-> "Ws", url |-> Unwrap(self.ingest_ws_url)])
    ELSE IF IsSome(self.ingest_tcp_host) /\ IsSome(self.ingest_tcp_port)
            /\ IsSome(self.assigned_input_id)
         THEN Some([kind |-> "Tcp", host |-> Unwrap(self.ingest_tcp_host),
                    port |-> Unwrap(self.ingest_tcp_port),
                    header |-> Unwrap(self.assigned_input_id)])
         ELSE None

\* the label is a sequence of its parts: <<url>>, <<host, port>> or <<"unassigned">>
ingest_label(self) ==
    IF IsSome(self.ingest_ws_url) THEN <<Unwrap(self.ingest_ws_url)>>
    ELSE IF IsSome(self.ingest_tcp_host) /\ IsSome(self.ingest_tcp_port)
         THEN <<Unwrap(self.ingest_tcp_host), Unwrap(self.ingest_tcp_port)>>
         ELSE <<"unassigned">>

stream_key(self) ==
    [assigned_input_id |-> self.assigned_input_id,
     ingest_ws_url |-> self.ingest_ws_url,
     ingest_tcp_host |-> self.ingest_tcp_host,
     ingest_tcp_port |-> self.ingest_tcp_port,
     capture_device |-> self.capture_device,
     target_rate |-> self.target_rate,
     resampler |-> self.resampler]

(***************************************************************************)
(* stream.rs: Backoff (ingest client); main.rs: Backoff (supervisor).      *)
(* A Backoff is its `current` delay in seconds.                            *)
(***************************************************************************)
\* next_delay without the cap
Backoff_next_delay_uncapped(b) == [delay |-> b, current |-> b * 2]

\* reset that leaves the delay where it is
Backoff_reset_noop(b) == b

Backoff_new == BACKOFF_START_S
Backoff_reset(b) == BACKOFF_START_S
Backoff_next_delay(b) == [delay |-> b, current |-> Min(b * 2, BACKOFF_CAP_S)]

SupBackoff_new == BACKOFF_START_S
SupBackoff_reset(b) == BACKOFF_START_S
SupBackoff_next_delay(b) == [delay |-> b, current |-> Min(b * 2, BACKOFF_CAP_S)]

(***************************************************************************)
(* State.                                                                  *)
(***************************************************************************)
VARIABLES
    now,               \* monotonic clock, ms
    \* status exchanger task (main.rs 102-141)
    st_pc,             \* "snapshot" | "posting" | "sleeping"
    runtime,           \* its RuntimeConfig
    snapshot,          \* the BridgeStatusRequest of the POST in flight
    reply,             \* the outcome of the last POST: None (failed) or Some(response)
    devices,           \* the enumerated capture-device list
    last_devices_hash, \* Option<hash>
    st_wake_at,        \* end of its 5 s sleep
    \* watch channels
    config_watch,      \* value of the configuration watch
    config_unseen,     \* config_rx has not seen the latest version
    vad_watch,         \* value of the VAD watch: <<threshold_db, hold_duration>>
    vad_version,       \* 0 until the first send on the VAD watch, then 1
    \* pipeline supervisor (main.rs 143-225)
    sup_pc,            \* "top" | "idle_wait" | "select" | "sleep" | "exited"
    current,           \* the configuration it observed at step 1
    cur,               \* index in sessions of the session in scope, 0 if none
    sup_backoff,
    sup_wake_at,
    \* Status Register (stream.rs StatusState)
    status,
    \* every capture session started so far, with its ingest task
    sessions,
    \* harnesses: one Backoff of each implementation (cl, sup) and the number of
    \* direct calls made on the Status Register (reg); traced tells whether the
    \* run records what is written to the transport
    probe,
    \* history: edges = gate transitions inactive -> active after >= TRACK_GAP_MS
    \* of idleness so far, unread_edges = those since the last control-plane read;
    \* reads = control-plane reads, true_reads = those that reported track_change;
    \* unread_sets = set_track_change() calls since the last read;
    \* sent_sum = the lengths of the chunks whose send succeeded, added up;
    \* posted = the device list as enumerated at the latest status snapshot
    track

vars == <<now, st_pc, runtime, snapshot, reply, devices, last_devices_hash, st_wake_at,
          config_watch, config_unseen, vad_watch, vad_version,
          sup_pc, current, cur, sup_backoff, sup_wake_at, status, sessions, probe,
          track>>

stVars == <<st_pc, runtime, snapshot, reply, devices, last_devices_hash, st_wake_at>>
watchVars == <<config_watch, config_unseen, vad_watch, vad_version>>
supVars == <<sup_pc, current, cur, sup_backoff, sup_wake_at>>

(***************************************************************************)
(* stream.rs: StatusHandle                                                 *)
(***************************************************************************)
StatusHandle_new(device, ingest) ==
    [state |-> "IDLE", device |-> device, ingest |-> ingest, last_error |-> None,
     capture_info |-> None, rms_db |-> None, track_change |-> FALSE,
     bytes_sent_total |-> 0, last_chunk_ts |-> None]

set_state(st, state) == [st EXCEPT !.state = state]
set_last_error(st, error) == [st EXCEPT !.last_error = error]
set_device(st, device) == [st EXCEPT !.device = device]
set_ingest(st, ingest) == [st EXCEPT !.ingest = ingest]
set_capture_info(st, info) == [st EXCEPT !.capture_info = Some(info)]
set_rms_db(st, rms_db) == [st EXCEPT !.rms_db = rms_db]
set_track_change(st) == [st EXCEPT !.track_change = TRUE]
\* a counter of the current connection only: the last chunk overwrites it
record_bytes_overwrites(st, bytes, ts) ==
    [st EXCEPT !.bytes_sent_total = bytes, !.last_chunk_ts = Some(ts)]
record_bytes(st, bytes, ts) ==
    [st EXCEPT !.bytes_sent_total = @ + bytes, !.last_chunk_ts = Some(ts)]

\* a read that leaves the flag raised
bridge_status_keeps_flag(st) ==
    [request |-> [state |-> st.state,
                  device |-> IF st.device = "" THEN None ELSE Some(st.device),
                  capture_info |-> st.capture_info,
                  rms_db |-> st.rms_db,
                  last_error |-> st.last_error,
                  track_change |-> IF st.track_change THEN Some(TRUE) ELSE None,
                  capture_devices |-> None],
     inner |-> st]

\* bridge_status: the request it returns, and the register it leaves
bridge_status(st) ==
    [request |-> [state |-> st.state,
                  device |-> IF st.device = "" THEN None ELSE Some(st.device),
                  capture_info |-> st.capture_info,
                  rms_db |-> st.rms_db,
                  last_error |-> st.last_error,
                  track_change |-> IF st.track_change THEN Some(TRUE) ELSE None,
                  capture_devices |-> None],
     inner |-> [st EXCEPT !.track_change = FALSE]]

\* the history after a control-plane read that returned `request`
read_tracked(tr, request) ==
    [tr EXCEPT !.unread_sets = 0, !.unread_edges = 0, !.reads = @ + 1,
               !.true_reads = IF request.track_change = Some(TRUE) THEN @ + 1 ELSE @]

\* a hash that does not tell the lists apart
hash_capture_devices_constant(list) == <<>>

\* main.rs: hash_capture_devices; distinct lists of the model hash differently
hash_capture_devices(list) == list

(***************************************************************************)
(* Capture chunks.  A chunk of the model is `len` bytes of i16-LE samples  *)
(* that all have the absolute value `amp`, so its RMS is amp / 32767.      *)
(***************************************************************************)
Amps == {0, 328, 1037}
ChunkLen == 4
SilentRunCap == 3
\* at is the time the callback produced the chunk, kept in traced runs only
Chunks == [amp : Amps, len : {ChunkLen}, at : {0}]

\* 20 * log10(amp / 32767) rounded down to a whole dB, for the amplitudes above
\* (-39.99 and -29.99); thresholds are whole dB, so rms_db >= threshold_db is
\* decided as on the exact value
DbOfAmp(amp) == CASE amp = 328 -> -40 [] amp = 1037 -> -30

\* stream.rs: rms_db_from_pcm_i16_le
rms_db_from_pcm_i16_le(chunk) ==
    IF chunk.len \div 2 = 0 THEN None
    ELSE IF chunk.amp <= 0 THEN Some(-100)
    ELSE Some(DbOfAmp(chunk.amp))

(***************************************************************************)
(* stream.rs: VadGate, and the gate step of stream_audio_tcp/_ws           *)
(***************************************************************************)
VadGate_new == [active |-> FALSE, last_active |-> None]
set_active(gate, t) == [active |-> TRUE, last_active |-> Some(t)]
set_inactive(gate) == [gate EXCEPT !.active = FALSE]
should_keep_active(gate, t, hold) ==
    IF IsSome(gate.last_active) THEN t - Unwrap(gate.last_active) <= hold ELSE FALSE

\* a gate that marks activity on the rising edge only
gate_step_rising_only(gate, rms_db, t, threshold_db, hold_duration) ==
    IF rms_db >= threshold_db /\ ~gate.active THEN set_active(gate, t)
    ELSE IF should_keep_active(gate, t, hold_duration) THEN gate
    ELSE set_inactive(gate)

\* a gate that the hold time alone turns active
gate_step_hold_revives(gate, rms_db, t, threshold_db, hold_duration) ==
    IF rms_db >= threshold_db THEN set_active(gate, t)
    ELSE IF should_keep_active(gate, t, hold_duration) THEN [gate EXCEPT !.active = TRUE]
    ELSE set_inactive(gate)

\* 220-225 / 339-344
gate_step(gate, rms_db, t, threshold_db, hold_duration) ==
    IF rms_db >= threshold_db THEN set_active(gate, t)
    ELSE IF should_keep_active(gate, t, hold_duration) THEN gate
    ELSE set_inactive(gate)

\* a rising edge that raises track_change after any idle period
raises_track_change_any_gap(idle_since, t) == IsSome(idle_since)

\* 228-233 / 347-352: the rising edge raises track_change
raises_track_change(idle_since, t) ==
    IsSome(idle_since) /\ t - Unwrap(idle_since) >= TRACK_GAP_MS

\* 215-240 / 334-359: the envelope and the gate for one chunk; the session
\* and the Status Register afterwards
gate_chunk(s, st, chunk, t) ==
    LET rms_db == rms_db_from_pcm_i16_le(chunk)
        st1 == set_rms_db(st, rms_db)
    IN  IF ~IsSome(rms_db) THEN [s |-> s, st |-> st1]
        ELSE LET was_active == s.gate.active
                 gate == gate_step(s.gate, Unwrap(rms_db), t, s.threshold_db,
                                   s.hold_duration)
                 rising == gate.active /\ ~was_active
                 falling == ~gate.active /\ was_active
             IN  [s |-> [s EXCEPT !.gate = gate,
                                  !.idle_since = IF rising THEN None
                                                 ELSE IF falling THEN Some(t) ELSE @],
                  st |-> IF rising /\ raises_track_change(s.idle_since, t)
                         THEN set_track_change(st1) ELSE st1]

\* what a connection has carried so far: the time it was established and the
\* writes on it, in order
Connection(t) == [at |-> t, items |-> <<>>]
written(s, item) ==
    IF probe.traced /\ s.wire # <<>>
    THEN [s EXCEPT !.wire[Len(s.wire)].items = Append(@, item)] ELSE s
opened(s, t) == IF probe.traced THEN [s EXCEPT !.wire = Append(@, Connection(t))] ELSE s

\* a connect_tcp that sends no header
connect_tcp_no_header(s, t) == [opened(s, t) EXCEPT !.conn = TRUE]

\* 418-429: connect_tcp succeeds: connected, and the header line written
connect_tcp(s, t) ==
    [written(opened(s, t), [kind |-> "header", data |-> <<s.ingest.header, "\n">>,
                            at |-> t])
        EXCEPT !.conn = TRUE]

\* 431-436: connect_ws succeeds
connect_ws(s, t) == [opened(s, t) EXCEPT !.conn = TRUE]

\* 196 / 315: the dial of the session's transport succeeds
connect(s, t) == IF s.ingest.kind = "Tcp" THEN connect_tcp(s, t) ELSE connect_ws(s, t)

\* 248 / 368: the chunk is written to the connection
write_all(s, chunk) == written(s, [kind |-> "pcm", data |-> <<>>, at |-> chunk.at])

\* a loop top that dials without a word
loop_top_silent(s, st) ==
    IF ~s.conn THEN [s |-> [s EXCEPT !.pc = "dialing"], st |-> st]
    ELSE [s |-> [s EXCEPT !.pc = "select"], st |-> st]

\* 193-195 / 312-314: the top of the ingest loop, up to the next await
loop_top(s, st) ==
    IF ~s.conn THEN [s |-> [s EXCEPT !.pc = "dialing"], st |-> set_state(st, "RECONNECTING")]
    ELSE [s |-> [s EXCEPT !.pc = "select"], st |-> st]

\* audio.rs start_capture + main.rs 186-198: a capture session and its ingest task;
\* buffer_ready tells that the device has a buffer for the data callback; dials
\* is the history of its dial outcomes; silent_since and silent_run are the
\* history of its latest chunks: the time of the first and the number (up to
\* SilentRunCap) of the -100 dB chunks received since the last other chunk; wire
\* is, in traced runs, what the task wrote to each of its connections, and
\* produced the production times of the chunks the callback offered; held_off
\* tells that a chunk below the threshold met an inactive gate within the hold time
new_session(config, vad_changed) ==
    [task |-> "running", result |-> None, capture |-> "open",
     device |-> Unwrap(config.capture_device), target_rate |-> config.target_rate,
     resampler |-> config.resampler, ingest |-> Unwrap(ingest_target(config)),
     pc |-> "start", conn |-> FALSE, backoff |-> Backoff_new, wake_at |-> 0,
     gate |-> VadGate_new, idle_since |-> None,
     threshold_db |-> config.vad_threshold_db, hold_duration |-> config.vad_hold_ms,
     vad_unseen |-> vad_changed, queue |-> <<>>, err_queue |-> <<>>,
     buffer_ready |-> TRUE, dials |-> <<>>, silent_since |-> None, silent_run |-> 0,
     wire |-> <<>>, produced |-> <<>>, overflowed |-> FALSE, held_off |-> FALSE]

(***************************************************************************)
(* Initial state: run() has registered (the reply is initial_config), has  *)
(* created the watch channels and the Status Register and has spawned the  *)
(* status exchanger; the supervisor is about to enter its loop.            *)
(***************************************************************************)
InitTraced(initial_configs, lists, traced) ==
    \E initial_config \in initial_configs, capture_devices \in lists :
        /\ now = 0
        /\ st_pc = "snapshot"
        /\ runtime = from_response(initial_config)
        /\ snapshot = None
        /\ reply = None
        /\ devices = capture_devices
        /\ last_devices_hash = None
        /\ st_wake_at = 0
        /\ config_watch = from_response(initial_config)
        /\ config_unseen = FALSE
        /\ vad_watch = <<from_response(initial_config).vad_threshold_db,
                         from_response(initial_config).vad_hold_ms>>
        /\ vad_version = 0
        /\ sup_pc = "top"
        /\ current = None
        /\ cur = 0
        /\ sup_backoff = SupBackoff_new
        /\ sup_wake_at = 0
        /\ status = StatusHandle_new("", "")
        /\ sessions = <<>>
        /\ track = [edges |-> 0, unread_edges |-> 0, reads |-> 0, true_reads |-> 0,
                    unread_sets |-> 0, sent_sum |-> 0, posted |-> None]
        /\ probe = [cl |-> [current |-> Backoff_new, calls |-> 0, last |-> 0],
                    sup |-> [current |-> SupBackoff_new, calls |-> 0, last |-> 0],
                    reg |-> 0, traced |-> traced,
                    rs |-> [built |-> FALSE],
                    pcm |-> [called |-> FALSE],
                    lin |-> [built |-> FALSE],
                    trk |-> [built |-> FALSE],
                    health |-> [pc |-> "attempt", last_write_ok |-> TRUE, log |-> <<>>]]

InitWith(initial_configs, lists) == InitTraced(initial_configs, lists, FALSE)

(***************************************************************************)
(* Status exchanger (main.rs 102-141).                                     *)
(***************************************************************************)
\* 107-112: snapshot the register (clearing track_change), attach the device
\* list when its hash differs from the last one posted, and start the POST
StatusSnapshot ==
    /\ st_pc = "snapshot"
    /\ LET bs == bridge_status(status)
           current_hash == hash_capture_devices(devices)
           attach == last_devices_hash # Some(current_hash)
       IN  /\ status' = bs.inner
           /\ snapshot' = Some([bs.request EXCEPT !.capture_devices =
                                    IF attach THEN Some(devices) ELSE @])
           /\ last_devices_hash' = IF attach THEN Some(current_hash)
                                   ELSE last_devices_hash
    /\ track' = [read_tracked(track, bridge_status(status).request) EXCEPT
                    !.posted = Some(devices)]
    /\ st_pc' = "posting"
    /\ UNCHANGED <<now, runtime, reply, devices, st_wake_at, watchVars, supVars,
                   sessions, probe>>

\* Status Register harness: bridge_status() (stream.rs 115-141) called on its own
ProbeBridgeStatus ==
    /\ probe.reg < MaxCalls
    /\ LET bs == bridge_status(status)
       IN  /\ status' = bs.inner
           /\ snapshot' = Some(bs.request)
           /\ track' = read_tracked(track, bs.request)
    /\ probe' = [probe EXCEPT !.reg = @ + 1]
    /\ UNCHANGED <<now, st_pc, runtime, reply, devices, last_devices_hash, st_wake_at,
                   watchVars, supVars, sessions>>

\* stream.rs 86-90 called on its own
ProbeSetTrackChange ==
    /\ probe.reg < MaxCalls
    /\ status' = set_track_change(status)
    /\ track' = [track EXCEPT !.unread_sets = @ + 1]
    /\ probe' = [probe EXCEPT !.reg = @ + 1]
    /\ UNCHANGED <<now, stVars, watchVars, supVars, sessions>>

\* stream.rs 54-58 called on its own
ProbeSetState(state) ==
    /\ probe.reg < MaxCalls
    /\ status' = set_state(status, state)
    /\ probe' = [probe EXCEPT !.reg = @ + 1]
    /\ UNCHANGED <<now, stVars, watchVars, supVars, sessions, track>>

\* every live ingest task holds a clone of vad_rx: a send marks it changed
vad_notify(ss) ==
    [i \in DOMAIN ss |-> IF ss[i].task = "running"
                         THEN [ss[i] EXCEPT !.vad_unseen = TRUE] ELSE ss[i]]

\* 114-131, 136: the POST succeeded with `update`
StatusPostOk(response) ==
    /\ st_pc = "posting"
    /\ LET u == update(runtime, response)
       IN  /\ runtime' = u.config
           /\ IF u.changed
              THEN /\ vad_watch' = <<u.config.vad_threshold_db, u.config.vad_hold_ms>>
                   /\ vad_version' = 1
                   /\ sessions' = vad_notify(sessions)
                   /\ config_watch' = u.config
                   /\ config_unseen' = TRUE
              ELSE UNCHANGED <<watchVars, sessions>>
    /\ reply' = Some(response)
    /\ snapshot' = None
    /\ st_pc' = "sleeping"
    /\ st_wake_at' = now + STATUS_PERIOD_MS
    /\ UNCHANGED <<now, devices, last_devices_hash, supVars, status, probe, track>>

\* 132-136: the POST failed
\* an exchanger that posts again at once after a failure
StatusPostErr_retries_at_once ==
    /\ st_pc = "posting"
    /\ reply' = None
    /\ snapshot' = None
    /\ st_pc' = "sleeping"
    /\ st_wake_at' = now
    /\ UNCHANGED <<now, runtime, devices, last_devices_hash, watchVars, supVars,
                   status, sessions, probe, track>>

StatusPostErr ==
    /\ st_pc = "posting"
    /\ reply' = None
    /\ snapshot' = None
    /\ st_pc' = "sleeping"
    /\ st_wake_at' = now + STATUS_PERIOD_MS
    /\ UNCHANGED <<now, runtime, devices, last_devices_hash, watchVars, supVars,
                   status, sessions, probe, track>>

\* 136-139: the sleep is over; re-enumerate the devices (an Err keeps the list)
StatusWake(new_devices) ==
    /\ st_pc = "sleeping"
    /\ now >= st_wake_at
    /\ devices' = new_devices
    /\ reply' = None
    /\ st_pc' = "snapshot"
    /\ UNCHANGED <<now, runtime, snapshot, last_devices_hash, st_wake_at, watchVars,
                   supVars, status, sessions, probe, track>>

(***************************************************************************)
(* Pipeline supervisor (main.rs 143-225).                                  *)
(***************************************************************************)
\* 145-158: the observed configuration is not ready (or has no ingest target)
SupObserveNotReady ==
    /\ sup_pc = "top"
    /\ ~is_ready(config_watch) \/ ~IsSome(ingest_target(config_watch))
    /\ current' = Some(config_watch)
    /\ status' = set_state(status, "IDLE")
    /\ sup_pc' = "idle_wait"
    /\ UNCHANGED <<now, stVars, watchVars, cur, sup_backoff, sup_wake_at, sessions, probe, track>>

\* 148 / 155: config_rx.changed() while idle
SupIdleChanged ==
    /\ sup_pc = "idle_wait"
    /\ config_unseen
    /\ config_unseen' = FALSE
    /\ sup_pc' = "top"
    /\ UNCHANGED <<now, stVars, config_watch, vad_watch, vad_version, current, cur,
                   sup_backoff, sup_wake_at, status, sessions, probe, track>>

\* 145-198: ready; start_capture succeeds; the ingest task is spawned
SupStartCaptureOk ==
    /\ sup_pc = "top"
    /\ is_ready(config_watch) /\ IsSome(ingest_target(config_watch))
    /\ Len(sessions) < MaxSessions
    /\ current' = Some(config_watch)
    /\ status' = set_capture_info(
                    set_ingest(set_device(status, Unwrap(config_watch.capture_device)),
                               ingest_label(config_watch)),
                    config_watch.target_rate)
    /\ sup_backoff' = SupBackoff_reset(sup_backoff)
    /\ sessions' = Append(sessions, new_session(config_watch, vad_version # 0))
    /\ cur' = Len(sessions) + 1
    /\ sup_pc' = "select"
    /\ UNCHANGED <<now, stVars, watchVars, sup_wake_at, probe, track>>

\* a supervisor that retries a failed capture start at once
SupStartCaptureErr_retries_at_once ==
    /\ sup_pc = "top"
    /\ is_ready(config_watch) /\ IsSome(ingest_target(config_watch))
    /\ current' = Some(config_watch)
    /\ status' = set_last_error(
                    set_state(
                        set_ingest(set_device(status, Unwrap(config_watch.capture_device)),
                                   ingest_label(config_watch)),
                        "ERROR"),
                    Some("capture failed"))
    /\ sup_backoff' = SupBackoff_next_delay(sup_backoff).current
    /\ sup_wake_at' = now
    /\ sup_pc' = "sleep"
    /\ UNCHANGED <<now, stVars, watchVars, cur, sessions, probe, track>>

\* 145-163, 218-223: ready; start_capture fails; sleep the backoff delay
SupStartCaptureErr ==
    /\ sup_pc = "top"
    /\ is_ready(config_watch) /\ IsSome(ingest_target(config_watch))
    /\ current' = Some(config_watch)
    /\ status' = set_last_error(
                    set_state(
                        set_ingest(set_device(status, Unwrap(config_watch.capture_device)),
                                   ingest_label(config_watch)),
                        "ERROR"),
                    Some("capture failed"))
    /\ LET r == SupBackoff_next_delay(sup_backoff)
       IN  /\ sup_backoff' = r.current
           /\ sup_wake_at' = now + r.delay * 1000
    /\ sup_pc' = "sleep"
    /\ UNCHANGED <<now, stVars, watchVars, cur, sessions, probe, track>>

\* 222: the backoff sleep is over
SupSleepWake ==
    /\ sup_pc = "sleep"
    /\ now >= sup_wake_at
    /\ sup_pc' = "top"
    /\ UNCHANGED <<now, stVars, watchVars, current, cur, sup_backoff, sup_wake_at,
                   status, sessions, probe, track>>

\* the Ok(session) arm ends: _stream_guard is dropped (the device stops and both
\* queues lose their senders) and the JoinHandle is dropped (the task is detached)
scope_exit(ss, i) == [ss EXCEPT ![i].capture = "dropped", ![i].buffer_ready = FALSE]

\* 200-209: the ingest task returned Err(err)
SupTaskResult ==
    /\ sup_pc = "select"
    /\ sessions[cur].task = "returned"
    /\ status' = set_last_error(set_state(status, "ERROR"), sessions[cur].result)
    /\ sessions' = scope_exit(sessions, cur)
    /\ cur' = 0
    /\ sup_pc' = "top"
    /\ UNCHANGED <<now, stVars, watchVars, current, sup_backoff, sup_wake_at, probe, track>>

\* 200-201: joining the ingest task failed (the task panicked); `?` makes run()
\* return the error, main() returns it and the process exits
SupJoinError ==
    /\ sup_pc = "select"
    /\ sessions[cur].task = "panicked"
    /\ sessions' = scope_exit(sessions, cur)
    /\ cur' = 0
    /\ sup_pc' = "exited"
    /\ UNCHANGED <<now, stVars, watchVars, current, sup_backoff, sup_wake_at, status,
                   probe, track>>

\* the supervisor never aborts
abort_never(ss, i, next, current_key) == ss

\* 212-214: abort the ingest task when the stream key changed
abort_if_key_changed(ss, i, next, current_key) ==
    IF stream_key(next) # current_key /\ ss[i].task = "running"
    THEN [ss EXCEPT ![i].task = "aborted"]
    ELSE ss

\* 210-216: config_rx.changed() while the session runs
SupConfigChanged ==
    /\ sup_pc = "select"
    /\ config_unseen
    /\ config_unseen' = FALSE
    /\ sessions' = scope_exit(
                      abort_if_key_changed(sessions, cur, config_watch,
                                           stream_key(Unwrap(current))),
                      cur)
    /\ cur' = 0
    /\ sup_pc' = "top"
    /\ UNCHANGED <<now, stVars, config_watch, vad_watch, vad_version, current,
                   sup_backoff, sup_wake_at, status, probe, track>>

(***************************************************************************)
(* Ingest client (stream.rs 178-296 and 298-416; the two differ only in    *)
(* the transport), for the task of session i.                              *)
(***************************************************************************)
Running(i) == i \in DOMAIN sessions /\ sessions[i].task = "running"

\* the history of dial outcomes, the last DialsKept of them
noted(history, outcome) ==
    IF Len(history) < DialsKept THEN Append(history, outcome)
    ELSE Append(Tail(history), outcome)

\* the session and the register after a step of task i
TaskStep(i, r) ==
    /\ sessions' = [sessions EXCEPT ![i] = r.s]
    /\ status' = r.st
    /\ UNCHANGED <<now, stVars, watchVars, supVars, probe>>

\* 179-195: the task starts and reaches its first dial
TaskStart(i) ==
    /\ Running(i) /\ sessions[i].pc = "start"
    /\ TaskStep(i, loop_top(sessions[i], status))
    /\ UNCHANGED track

\* 196-202: the dial succeeded
TaskDialOk(i) ==
    /\ Running(i) /\ sessions[i].pc = "dialing"
    /\ TaskStep(i, loop_top([connect(sessions[i], now) EXCEPT
                                                !.backoff = Backoff_reset(@),
                                                !.dials = noted(@, "ok")],
                            set_last_error(set_state(status, "STREAMING"), None)))
    /\ UNCHANGED track

\* 203-207: the dial failed, at the connect or (connected) at the header write;
\* sleep the backoff delay
TaskDialFail(i) ==
    /\ Running(i) /\ sessions[i].pc = "dialing"
    /\ \E connected \in BOOLEAN :
       LET r == Backoff_next_delay(sessions[i].backoff)
           failed == IF connected THEN opened(sessions[i], now) ELSE sessions[i]
       IN  TaskStep(i, [s |-> [failed EXCEPT !.backoff = r.current,
                                                  !.wake_at = now + r.delay * 1000,
                                                  !.pc = "sleeping",
                                                  !.dials = noted(@, "fail")],
                        st |-> set_last_error(status, Some("connect failed"))])
    /\ UNCHANGED track

\* 205-206, 193-195: the sleep is over; `continue`
TaskSleepWake(i) ==
    /\ Running(i) /\ sessions[i].pc = "sleeping"
    /\ now >= sessions[i].wake_at
    /\ TaskStep(i, loop_top(sessions[i], status))
    /\ UNCHANGED track

\* a client that closes the transport when the gate is inactive
send_chunk_closes_on_silence(s, st, chunk, sent, t) ==
    IF ~s.gate.active THEN [s |-> [s EXCEPT !.conn = FALSE], st |-> set_state(st, "IDLE")]
    ELSE IF ~s.conn THEN [s |-> s, st |-> st]
    ELSE IF sent THEN [s |-> write_all(s, chunk),
                       st |-> record_bytes(set_state(st, "STREAMING"), chunk.len, t)]
    ELSE [s |-> [s EXCEPT !.conn = FALSE],
          st |-> set_last_error(st, Some("send failed"))]

\* a client that counts the chunk whose write failed
send_chunk_counts_failed(s, st, chunk, sent, t) ==
    IF ~s.gate.active THEN [s |-> s, st |-> set_state(st, "IDLE")]
    ELSE IF ~s.conn THEN [s |-> s, st |-> st]
    ELSE IF sent THEN [s |-> write_all(s, chunk),
                       st |-> record_bytes(set_state(st, "STREAMING"), chunk.len, t)]
    ELSE [s |-> [s EXCEPT !.conn = FALSE],
          st |-> record_bytes(set_last_error(st, Some("send failed")), chunk.len, t)]

\* 242-267: what follows the gate for one chunk; sent tells whether write_all
\* (or the WebSocket send) succeeded
send_chunk(s, st, chunk, sent, t) ==
    IF ~s.gate.active THEN [s |-> s, st |-> set_state(st, "IDLE")]
    ELSE IF ~s.conn THEN [s |-> s, st |-> st]
    ELSE IF sent THEN [s |-> write_all(s, chunk),
                       st |-> record_bytes(set_state(st, "STREAMING"), chunk.len, t)]
    ELSE [s |-> [s EXCEPT !.conn = FALSE],
          st |-> set_last_error(st, Some("send failed"))]

\* a receiver that takes the newest chunk
recv_newest(queue) ==
    [chunk |-> queue[Len(queue)], rest |-> SubSeq(queue, 1, Len(queue) - 1)]

\* 212: rx.recv() on a queue that holds a chunk
recv(queue) == [chunk |-> Head(queue), rest |-> Tail(queue)]

\* 212-268: a chunk arrives
TaskRecvChunk(i, sent) ==
    /\ Running(i) /\ sessions[i].pc = "select"
    /\ sessions[i].queue # <<>>
    /\ LET chunk == recv(sessions[i].queue).chunk
           popped == [sessions[i] EXCEPT !.queue = recv(@).rest]
           g == gate_chunk(popped, status, chunk, now)
           w == send_chunk(g.s, g.st, chunk, sent, now)
           rose == ~sessions[i].gate.active /\ g.s.gate.active
           idle_ms == IF IsSome(sessions[i].idle_since)
                      THEN now - Unwrap(sessions[i].idle_since) ELSE -1
           was_set == gate_chunk(popped, [status EXCEPT !.track_change = FALSE],
                                 chunk, now).st.track_change
           silent == rms_db_from_pcm_i16_le(chunk) = Some(-100)
           heard == [w.s EXCEPT
                        !.silent_since = IF ~silent THEN None
                                         ELSE IF IsSome(@) THEN @ ELSE Some(now),
                        !.silent_run = IF silent THEN Min(@ + 1, SilentRunCap) ELSE 0,
                        !.held_off = @ \/ (/\ IsSome(rms_db_from_pcm_i16_le(chunk))
                                           /\ Unwrap(rms_db_from_pcm_i16_le(chunk))
                                                  < popped.threshold_db
                                           /\ ~popped.gate.active
                                           /\ should_keep_active(popped.gate, now,
                                                                 popped.hold_duration))]
       IN  /\ TaskStep(i, loop_top(heard, w.st))
           /\ track' = [track EXCEPT
                           !.edges = IF rose /\ idle_ms >= TRACK_GAP_MS THEN @ + 1 ELSE @,
                           !.unread_edges = IF rose /\ idle_ms >= TRACK_GAP_MS
                                            THEN @ + 1 ELSE @,
                           !.unread_sets = IF was_set THEN @ + 1 ELSE @,
                           !.sent_sum = IF g.s.gate.active /\ g.s.conn /\ sent
                                        THEN @ + chunk.len ELSE @]

\* the task returns Err(message)
returned(s, message) == [s EXCEPT !.task = "returned", !.result = Some(message)]

\* 269-271: the chunk queue is closed and drained
TaskRecvClosed(i) ==
    /\ Running(i) /\ sessions[i].pc = "select"
    /\ sessions[i].queue = <<>> /\ sessions[i].capture = "dropped"
    /\ TaskStep(i, [s |-> returned(sessions[i], "audio capture channel closed"),
                    st |-> status])
    /\ UNCHANGED track

\* 274-281: a capture error arrives, or the error queue is closed and drained
TaskRecvErr(i) ==
    /\ Running(i) /\ sessions[i].pc = "select"
    /\ sessions[i].err_queue # <<>> \/ sessions[i].capture = "dropped"
    /\ LET message == IF sessions[i].err_queue # <<>> THEN Head(sessions[i].err_queue)
                      ELSE "audio capture error channel closed"
       IN  TaskStep(i, [s |-> returned([sessions[i] EXCEPT !.err_queue =
                                            IF @ # <<>> THEN Tail(@) ELSE @], message),
                        st |-> set_last_error(status, Some(message))])
    /\ UNCHANGED track

\* the task panics at one of its steps: its JoinHandle yields a JoinError
TaskPanic(i) ==
    /\ Running(i)
    /\ TaskStep(i, [s |-> [sessions[i] EXCEPT !.task = "panicked"], st |-> status])
    /\ UNCHANGED track

\* a hot update that starts the gate afresh
TaskVadChanged_resets_gate(i) ==
    /\ Running(i) /\ sessions[i].pc = "select"
    /\ sessions[i].vad_unseen
    /\ TaskStep(i, loop_top([sessions[i] EXCEPT !.vad_unseen = FALSE,
                                                !.threshold_db = vad_watch[1],
                                                !.hold_duration = vad_watch[2],
                                                !.gate = VadGate_new,
                                                !.idle_since = None],
                            status))
    /\ UNCHANGED track

\* 282-293: the VAD watch changed
TaskVadChanged(i) ==
    /\ Running(i) /\ sessions[i].pc = "select"
    /\ sessions[i].vad_unseen
    /\ TaskStep(i, loop_top([sessions[i] EXCEPT !.vad_unseen = FALSE,
                                                !.threshold_db = vad_watch[1],
                                                !.hold_duration = vad_watch[2]],
                            status))
    /\ UNCHANGED track

(***************************************************************************)
(* Capture callbacks (audio.rs 126-130, 195-224) of session i, and time.   *)
(***************************************************************************)
\* a ring buffer in place of the bounded queue: the oldest chunk gives way
try_send_drops_oldest(queue, item, capacity) ==
    IF Len(queue) < capacity THEN Append(queue, item) ELSE Append(Tail(queue), item)

\* tx.try_send(bytes): dropped when the queue is full or the receiver is gone
try_send(queue, item, capacity) ==
    IF Len(queue) < capacity THEN Append(queue, item) ELSE queue

\* 214-223: the data callback offers a non-empty chunk, whatever the consumer
\* is doing
CaptureBurst(i, chunk) ==
    /\ i \in DOMAIN sessions /\ sessions[i].capture = "open"
    /\ LET produced == IF probe.traced THEN [chunk EXCEPT !.at = now] ELSE chunk
       IN  sessions' = [sessions EXCEPT
                           ![i].queue = IF sessions[i].task = "running"
                                        THEN try_send(@, produced, CHUNK_QUEUE_CAP)
                                        ELSE @,
                           ![i].produced = IF probe.traced THEN Append(@, now) ELSE @,
                           ![i].overflowed = @ \/ (sessions[i].task = "running"
                                                   /\ Len(sessions[i].queue) >= CHUNK_QUEUE_CAP),
                           ![i].buffer_ready = FALSE]
    /\ UNCHANGED <<now, stVars, watchVars, supVars, status, probe, track>>

\* the same in the timed runs: the device delivers one buffer per clock value
CaptureQueued(i, chunk) ==
    /\ i \in DOMAIN sessions /\ sessions[i].buffer_ready
    /\ CaptureBurst(i, chunk)

\* the same with a consumer that is at most MaxPending chunks behind
CaptureData(i, chunk) ==
    /\ i \in DOMAIN sessions /\ Len(sessions[i].queue) < MaxPending
    /\ CaptureQueued(i, chunk)

\* 126-130: the error callback
CaptureError(i) ==
    /\ i \in DOMAIN sessions /\ sessions[i].capture = "open"
    /\ Len(sessions[i].err_queue) < MaxPending
    /\ sessions[i].task = "running"
    /\ sessions' = [sessions EXCEPT
                       ![i].err_queue = try_send(@, "capture error", ERR_QUEUE_CAP)]
    /\ UNCHANGED <<now, stVars, watchVars, supVars, status, probe, track>>

\* the clock advances, and every open device has its next buffer
Tick ==
    /\ now < MaxNow * TickMs
    /\ now' = now + TickMs
    /\ sessions' = [i \in DOMAIN sessions |->
                       IF sessions[i].capture = "open"
                       THEN [sessions[i] EXCEPT !.buffer_ready = TRUE] ELSE sessions[i]]
    /\ UNCHANGED <<stVars, watchVars, supVars, status, probe, track>>

(***************************************************************************)
(* The program.                                                            *)
(***************************************************************************)
SessionIds == 1 .. (MaxSessions + 1)

StatusNext(replies, lists) ==
    \/ StatusSnapshot
    \/ \E response \in replies : StatusPostOk(response)
    \/ StatusPostErr
    \/ \E new_devices \in lists : StatusWake(new_devices)

\* a full reply of the server: the assignment over TCP, with tuning fields
FullReply(id, threshold, hold, rate) ==
    [assigned_input_id |-> id, ingest_ws_url |-> None,
     ingest_tcp_host |-> Some("srv"), ingest_tcp_port |-> Some(7000),
     capture_device |-> Some("hw:0"), vad_threshold_db |-> threshold,
     vad_hold_ms |-> hold, ingest_sample_rate |-> rate, ingest_resampler |-> None]

\* control-plane runs: the server assigns, reassigns and unassigns the input and
\* retunes the gate
SupReplies ==
    {FullReply(id, threshold, None, None) :
        id \in Opt(InputIds), threshold \in Opt(Thresholds)}
SupInitialConfigs == {FullReply(Some("in1"), None, None, None),
                      FullReply(None, None, None, None)}

Init == InitWith(SupInitialConfigs, {<<"hw:0">>})
\* the control plane with a working device and network: no capture failure, no
\* dial failure, no audio
Next ==
    \/ StatusNext(SupReplies, {<<"hw:0">>})
    \/ SupObserveNotReady
    \/ SupIdleChanged
    \/ SupStartCaptureOk
    \/ SupConfigChanged
    \/ \E i \in SessionIds :
        \/ TaskStart(i)
        \/ TaskDialOk(i)
        \/ TaskRecvClosed(i)
        \/ TaskRecvErr(i)
        \/ TaskVadChanged(i)
    \/ Tick
Spec == Init /\ [][Next]_vars

\* the supervisor runs on: step 1 to 4 of its loop have no suspension point
SpecFair == Spec /\ WF_vars(SupStartCaptureOk) /\ WF_vars(SupObserveNotReady)

\* the supervisor with every failure: capture start and capture runtime errors,
\* failing dials, a failing or reconfiguring status exchange, a panicking task
RestartReplies == {FullReply(id, None, None, None) : id \in {Some("in1"), None}}
InitRestart == InitWith({FullReply(Some("in1"), None, None, None)}, {<<"hw:0">>})
NextRestart ==
    \/ StatusNext(RestartReplies, {<<"hw:0">>})
    \/ SupObserveNotReady
    \/ SupIdleChanged
    \/ SupStartCaptureOk
    \/ SupStartCaptureErr
    \/ SupSleepWake
    \/ SupTaskResult
    \/ SupJoinError
    \/ SupConfigChanged
    \/ \E i \in SessionIds :
        \/ TaskStart(i)
        \/ TaskDialOk(i)
        \/ TaskDialFail(i)
        \/ TaskSleepWake(i)
        \/ TaskRecvClosed(i)
        \/ TaskRecvErr(i)
        \/ TaskPanic(i)
        \/ CaptureError(i)
    \/ Tick
SpecRestart == InitRestart /\ [][NextRestart]_vars

(***************************************************************************)
(* Claims about the pipeline supervisor.                                   *)
(***************************************************************************)
\* C12: once in its loop the supervisor never leaves it: run() does not return.
C12_NeverExits == sup_pc # "exited"

\* the supervisor takes branch (b) of its select: the configuration watch changed
ChangeSeen == sup_pc = "select" /\ config_unseen /\ ~config_unseen'
SameKeySeen ==
    /\ ChangeSeen /\ stream_key(config_watch) = stream_key(Unwrap(current))
    /\ config_watch # Unwrap(current)
KeyChangeSeen == ChangeSeen /\ stream_key(config_watch) # stream_key(Unwrap(current))
SessionStarted == Len(sessions') = Len(sessions) + 1

\* C1: when the watch signals a publication whose stream key equals the running
\* session's, the supervisor keeps waiting on the same session: the task is not
\* aborted and the capture handle is not dropped.
C1_VadOnlyKeepsSession ==
    [][SameKeySeen =>
        /\ sup_pc' = "select" /\ cur' = cur
        /\ sessions'[cur].task = sessions[cur].task
        /\ sessions'[cur].capture = "open"
      ]_vars

\* C3: when the watch signals a change and the key differs from the session's, the
\* ingest task is aborted and the capture handle dropped; every session the
\* supervisor starts has the device, rate, resampler and ingest target of the
\* latest published configuration; and the supervisor, back at step 1, goes on to
\* start a session or, if the configuration is not ready, to wait for a change.
C3_KeyChangeRestarts ==
    /\ [][/\ KeyChangeSeen =>
                /\ sessions'[cur].task \in {"aborted", "returned"}
                /\ sessions'[cur].capture = "dropped"
                /\ sup_pc' = "top"
          /\ SessionStarted =>
                LET s == sessions'[Len(sessions')]
                IN  /\ cur' = Len(sessions') /\ s.task = "running" /\ s.capture = "open"
                    /\ s.device = Unwrap(config_watch'.capture_device)
                    /\ s.target_rate = config_watch'.target_rate
                    /\ s.resampler = config_watch'.resampler
                    /\ Some(s.ingest) = ingest_target(config_watch')
         ]_vars
    /\ (sup_pc = "top" /\ Len(sessions) < MaxSessions)
          ~> (sup_pc \in {"select", "idle_wait"})

\* a session was aborted for a key change and its successor runs with another input id
C3_Witness ==
    /\ Len(sessions) = 2 /\ sup_pc = "select" /\ cur = 2
    /\ sessions[1].task = "aborted" /\ sessions[1].capture = "dropped"
    /\ sessions[2].ingest.header # sessions[1].ingest.header

(***************************************************************************)
(* The data plane: one assigned input, a working device, a server that     *)
(* keeps the configuration.                                                *)
(***************************************************************************)
\* registration replies with the default hold time and with a short one
IngestInitialConfigs == {FullReply(Some("in1"), None, hold, None) : hold \in Opt(Holds)}
IngestReplies == {FullReply(Some("in1"), None, None, None)}
InitIngest == InitWith(IngestInitialConfigs, {<<"hw:0">>})

\* the transport: dials and sends may fail; loud audio only; no status exchange
LoudChunks == {c \in Chunks : c.amp = 1037}
NextDial ==
    \/ SupStartCaptureOk
    \/ \E i \in SessionIds :
        \/ TaskStart(i)
        \/ TaskDialOk(i)
        \/ TaskDialFail(i)
        \/ TaskSleepWake(i)
        \/ \E sent \in BOOLEAN : TaskRecvChunk(i, sent)
        \/ \E chunk \in LoudChunks : CaptureData(i, chunk)
    \/ Tick
InitDial == InitWith(IngestReplies, {<<"hw:0">>})
SpecDial == InitDial /\ [][NextDial]_vars

\* the gate and the control-plane reader: silence and loud audio, a network
\* that works.  The exchanger has no suspension point between the end of its
\* sleep and the read of the register (main.rs 136-107), so no time passes there;
\* the POST takes any time.
GateChunks == {c \in Chunks : c.amp \in {0, 1037}}
NextGate ==
    \/ StatusSnapshot
    \/ \E response \in IngestReplies : StatusPostOk(response)
    \/ \E new_devices \in {<<"hw:0">>} : StatusWake(new_devices)
    \/ SupStartCaptureOk
    \/ \E i \in SessionIds :
        \/ TaskStart(i)
        \/ TaskDialOk(i)
        \/ TaskRecvChunk(i, TRUE)
        \/ \E chunk \in GateChunks : CaptureData(i, chunk)
    \/ st_pc # "snapshot" /\ Tick
SpecGate == InitIngest /\ [][NextGate]_vars

(***************************************************************************)
(* Claims about the ingest client's dialing.                               *)
(***************************************************************************)
\* session i's dial fails in this step
DialFails(i) ==
    /\ i \in DOMAIN sessions /\ sessions[i].pc = "dialing"
    /\ sessions'[i].dials = Append(sessions[i].dials, "fail")
LastDialOk(i) ==
    /\ sessions[i].dials # <<>>
    /\ sessions[i].dials[Len(sessions[i].dials)] = "ok"

\* C6: in an ingest session the first dial failure after a successful dial is
\* followed by a sleep of 1 s, however many dial failures preceded the success.
C6_DialResetsBackoff ==
    [][\A i \in SessionIds :
          DialFails(i) /\ LastDialOk(i) =>
              /\ sessions'[i].pc = "sleeping"
              /\ sessions'[i].wake_at = now + 1000
      ]_vars

\* two failures (delays 1 s and 2 s), a success, a lost connection and a failure
\* that sleeps 1 s
C6_Witness ==
    \E i \in DOMAIN sessions :
        /\ sessions[i].dials = <<"fail", "fail", "ok", "fail">>
        /\ sessions[i].pc = "sleeping"
        /\ sessions[i].wake_at = now + 1000

(***************************************************************************)
(* The wire: the transport of SpecDial with the writes recorded, and a     *)
(* consumer that may fall behind by the whole queue.                       *)
(***************************************************************************)
\* the traced runs stop the clock after WireHorizon ticks
WireHorizon == 3
\* the supervisor and the ingest tasks are at a suspension point: the code
\* from the loop top to start_capture and the spawn (main.rs 145-199), and
\* from the task's start to its first dial (stream.rs 179-196), has none
AtSuspension ==
    /\ sup_pc # "top"
    /\ \A i \in DOMAIN sessions : sessions[i].task = "running" => sessions[i].pc # "start"
\* the device has delivered its buffer for this clock value
DeviceDelivered ==
    \A i \in DOMAIN sessions : sessions[i].capture = "open" => ~sessions[i].buffer_ready
InitWire == InitTraced(IngestReplies, {<<"hw:0">>}, TRUE)
NextWire ==
    \/ SupStartCaptureOk
    \/ \E i \in SessionIds :
        \/ TaskStart(i)
        \/ TaskDialOk(i)
        \/ TaskDialFail(i)
        \/ TaskSleepWake(i)
        \/ \E sent \in BOOLEAN : TaskRecvChunk(i, sent)
        \/ \E chunk \in LoudChunks : CaptureQueued(i, chunk)
    \/ AtSuspension /\ DeviceDelivered /\ now < WireHorizon * TickMs /\ Tick
SpecWire == InitWire /\ [][NextWire]_vars

\* C17: when a chunk write on an established connection fails, the client
\* sleeps the first backoff delay of 1 s before it dials again.
C17_SleepsBeforeRedial ==
    [][\A i \in DOMAIN sessions :
          (/\ sessions[i].task = "running" /\ sessions[i].pc = "select"
           /\ sessions[i].conn /\ ~sessions'[i].conn)
          => /\ sessions'[i].pc = "sleeping"
             /\ sessions'[i].wake_at = now + BACKOFF_START_S * 1000]_vars

\* C27: every step that takes a session without transport to a dial sets the
\* state RECONNECTING; a failed dial records last_error and sleeps the next
\* backoff delay, and the next dial starts no sooner; a successful dial sets
\* STREAMING and clears last_error; bytes are sent only by a session that has
\* a transport.
C27_DialCycle ==
    [][/\ \A i \in DOMAIN sessions :
            /\ (sessions[i].pc # "dialing" /\ sessions'[i].pc = "dialing")
                  => ~sessions'[i].conn /\ status'.state = "RECONNECTING"
            /\ DialFails(i)
                  => /\ IsSome(status'.last_error)
                     /\ ~sessions'[i].conn /\ sessions'[i].pc = "sleeping"
                     /\ sessions'[i].wake_at
                           = now + Backoff_next_delay(sessions[i].backoff).delay * 1000
                     /\ sessions'[i].backoff = Backoff_next_delay(sessions[i].backoff).current
            /\ (sessions[i].pc = "sleeping" /\ sessions'[i].pc # "sleeping")
                  => now >= sessions[i].wake_at /\ sessions'[i].pc = "dialing"
            /\ (~sessions[i].conn /\ sessions'[i].conn)
                  => /\ sessions[i].pc = "dialing"
                     /\ status'.state = "STREAMING" /\ status'.last_error = None
       /\ status'.bytes_sent_total # status.bytes_sent_total
            => \E i \in DOMAIN sessions : sessions[i].conn /\ sessions[i].pc = "select"
      ]_vars

\* two failed dials, 1 s and 2 s of sleep, and a dial that succeeded
C27_Witness ==
    \E i \in DOMAIN sessions :
        /\ sessions[i].dials = <<"fail", "fail", "ok">>
        /\ sessions[i].conn /\ now = 3 * TickMs
        /\ status.state = "STREAMING" /\ status.last_error = None
        /\ status.bytes_sent_total = 0

\* C28: a failed write records last_error, drops the transport, leaves
\* bytes_sent_total and last_chunk_ts alone and the task running; the same
\* pass through the loop top sets RECONNECTING and starts the dial.
C28_SendFailure ==
    [][\A i \in DOMAIN sessions :
          (/\ sessions[i].task = "running" /\ sessions[i].pc = "select"
           /\ sessions[i].conn /\ ~sessions'[i].conn)
          => /\ IsSome(status'.last_error)
             /\ status'.bytes_sent_total = status.bytes_sent_total
             /\ status'.last_chunk_ts = status.last_chunk_ts
             /\ track'.sent_sum = track.sent_sum
             /\ sessions'[i].task = "running"
             /\ sessions'[i].pc = "dialing"
             /\ status'.state = "RECONNECTING"
             /\ sessions'[i].queue = Tail(sessions[i].queue)
      ]_vars

\* the first write on the first connection failed: nothing is counted, the
\* task is dialing again
C28_Witness ==
    \E i \in DOMAIN sessions :
        /\ sessions[i].dials = <<"ok">> /\ ~sessions[i].conn
        /\ sessions[i].task = "running" /\ sessions[i].pc = "dialing"
        /\ status.last_error = Some("send failed")
        /\ status.state = "RECONNECTING" /\ status.bytes_sent_total = 0

\* C29: while the supervisor waits for a configuration change after it has
\* observed a configuration that is not ready, and no ingest task is running,
\* the published state is IDLE.
C29_IdleWhileWaiting ==
    (/\ sup_pc = "idle_wait"
     /\ \A i \in DOMAIN sessions : sessions[i].task # "running")
    => status.state = "IDLE"

\* C22: a failed status POST changes neither the runtime configuration nor the
\* two watches nor any session, and the exchanger takes its next snapshot no
\* sooner than 5 s after the failure.
C22_FailedPostKeepsConfig ==
    [][/\ (st_pc = "posting" /\ st_pc' = "sleeping" /\ reply' = None)
          => /\ runtime' = runtime
             /\ watchVars' = watchVars
             /\ sessions' = sessions
             /\ supVars' = supVars
             /\ st_wake_at' = now + STATUS_PERIOD_MS
       /\ (st_pc = "sleeping" /\ st_pc' = "snapshot") => now >= st_wake_at]_vars

\* the POST has failed while a session is streaming
C22_Witness ==
    /\ st_pc = "sleeping" /\ reply = None /\ st_wake_at = now + STATUS_PERIOD_MS
    /\ cur \in DOMAIN sessions
    /\ sessions[cur].task = "running" /\ sessions[cur].conn

(***************************************************************************)
(* The choice of transport: the registration reply carries any combination *)
(* of WebSocket URL, TCP host, TCP port and input id; the supervisor       *)
(* starts a session when the configuration is ready and the client dials.  *)
(***************************************************************************)
TargetConfigs ==
    {r \in Responses :
        /\ r.assigned_input_id \in {None, Some("in1")}
        /\ r.capture_device = Some("hw:0")
        /\ r.vad_threshold_db = None /\ r.vad_hold_ms = None
        /\ r.ingest_sample_rate = None /\ r.ingest_resampler = None}
InitTarget == InitWith(TargetConfigs, {<<"hw:0">>})
NextTarget ==
    \/ SupObserveNotReady
    \/ SupStartCaptureOk
    \/ \E i \in SessionIds :
        \/ TaskStart(i)
        \/ TaskDialOk(i)
        \/ TaskDialFail(i)
        \/ TaskSleepWake(i)
    \/ AtSuspension /\ Tick
SpecTarget == InitTarget /\ [][NextTarget]_vars

\* C21: a configuration with a WebSocket URL gives the WebSocket target and the
\* URL as label, whatever its TCP fields; the TCP target is given only without
\* a URL.  The session the supervisor starts has that target and the register
\* that label.
C21_WebSocketPreferred ==
    /\ IsSome(config_watch.ingest_ws_url) =>
          /\ ingest_target(config_watch)
                = Some([kind |-> "Ws", url |-> Unwrap(config_watch.ingest_ws_url)])
          /\ ingest_label(config_watch) = <<Unwrap(config_watch.ingest_ws_url)>>
    /\ (IsSome(ingest_target(config_watch))
          /\ Unwrap(ingest_target(config_watch)).kind = "Tcp")
         => config_watch.ingest_ws_url = None
    /\ \A i \in DOMAIN sessions :
          /\ IsSome(config_watch.ingest_ws_url) =>
                /\ sessions[i].ingest.kind = "Ws"
                /\ sessions[i].ingest.url = Unwrap(config_watch.ingest_ws_url)
                /\ status.ingest = <<Unwrap(config_watch.ingest_ws_url)>>
          /\ sessions[i].ingest.kind = "Tcp" => config_watch.ingest_ws_url = None

\* both transports are configured and the session is connected over WebSocket
C21_Witness ==
    /\ IsSome(config_watch.ingest_ws_url)
    /\ IsSome(config_watch.ingest_tcp_host) /\ IsSome(config_watch.ingest_tcp_port)
    /\ Len(sessions) = 1
    /\ sessions[1].ingest.kind = "Ws" /\ sessions[1].conn
    /\ status.ingest = <<Unwrap(config_watch.ingest_ws_url)>>

\* session i takes the change of the VAD watch in this step
VadStep(i) ==
    /\ i \in DOMAIN sessions /\ sessions[i].pc = "select"
    /\ sessions[i].vad_unseen /\ ~sessions'[i].vad_unseen

\* C25: a hot VAD update sets threshold_db and hold_duration to the latest
\* published pair in one step and leaves the gate (active, last_active),
\* idle_since, the transport and what it carried, and the Status Register
\* (state, bytes_sent_total and the rest) unchanged.
C25_HotUpdateFrame ==
    [][\A i \in SessionIds :
          VadStep(i) =>
              /\ sessions'[i].threshold_db = vad_watch[1]
              /\ sessions'[i].hold_duration = vad_watch[2]
              /\ sessions'[i].gate = sessions[i].gate
              /\ sessions'[i].idle_since = sessions[i].idle_since
              /\ sessions'[i].conn = sessions[i].conn
              /\ sessions'[i].wire = sessions[i].wire
              /\ sessions'[i].pc = "select"
              /\ status' = status
      ]_vars

\* a session that had streamed and gone idle under the registered pair runs
\* with the retuned pair, its gate and its idle period as they were
C25_Witness ==
    \E i \in DOMAIN sessions :
        /\ sessions[i].held_off /\ ~sessions[i].vad_unseen
        /\ sessions[i].threshold_db \in Thresholds
        /\ sessions[i].hold_duration = DEFAULT_VAD_HOLD_MS
        /\ sessions[i].gate = [active |-> FALSE, last_active |-> Some(0)]
        /\ IsSome(sessions[i].idle_since) /\ sessions[i].conn
        /\ status.bytes_sent_total = ChunkLen

(***************************************************************************)
(* The byte counter over the life of the process: sends that succeed and   *)
(* fail, reconnects, a session ended by a capture error, and a pipeline    *)
(* rebuilt because the server reassigned the input.                        *)
(***************************************************************************)
MaxSent == 2
MaxRedials == 2
BytesReplies == {FullReply(Some("in2"), None, None, None)}
\* the device reports one error at most
FirstError(i) == i \in DOMAIN sessions /\ sessions[i].err_queue = <<>>
\* the consumer keeps up with the device
Drained(i) == i \in DOMAIN sessions /\ sessions[i].queue = <<>>
RedialsLeft(i) == i \in DOMAIN sessions /\ Len(sessions[i].dials) < MaxRedials
NextBytes ==
    \/ StatusSnapshot
    \/ \E response \in BytesReplies : StatusPostOk(response)
    \/ SupStartCaptureOk
    \/ SupConfigChanged
    \/ SupTaskResult
    \/ \E i \in SessionIds :
        \/ TaskStart(i)
        \/ RedialsLeft(i) /\ TaskDialOk(i)
        \/ \E sent \in BOOLEAN :
              /\ track.sent_sum < MaxSent * ChunkLen
              /\ TaskRecvChunk(i, sent)
        \/ TaskRecvErr(i)
        \/ FirstError(i) /\ CaptureError(i)
        \/ \E chunk \in LoudChunks : Drained(i) /\ CaptureBurst(i, chunk)
SpecBytes == InitDial /\ [][NextBytes]_vars

\* C18: bytes_sent_total is the sum of the lengths of the chunks whose write
\* succeeded since the process started, and no step makes it smaller: not a
\* reconnect, not the end of an ingest session, not a pipeline rebuild.
C18_BytesMonotonic ==
    /\ [](status.bytes_sent_total = track.sent_sum)
    /\ [][status'.bytes_sent_total >= status.bytes_sent_total]_vars

\* the pipeline was rebuilt for the reassigned input and the second session is
\* on its second connection; the counter holds every chunk sent so far
C18_Witness ==
    /\ Len(sessions) >= 2
    /\ sessions[1].task = "aborted"
    /\ sessions[2].ingest.header = "in2"
    /\ Len(sessions[2].dials) >= 2
    /\ sessions[2].conn
    /\ status.bytes_sent_total >= 2 * ChunkLen

(***************************************************************************)
(* A capture error at run time, with time that never stops: the clock is   *)
(* kept relative, a tick brings every pending timer 1 s closer instead of  *)
(* advancing `now`, so that the runs in which dials fail for ever are      *)
(* infinite runs over finitely many states.  No audio in these runs.       *)
(***************************************************************************)
elapsed(deadline) == IF deadline - now > TickMs THEN deadline - TickMs ELSE now
TickShift ==
    /\ sessions' = [i \in DOMAIN sessions |->
                       [sessions[i] EXCEPT !.wake_at = elapsed(@)]]
    /\ sup_wake_at' = elapsed(sup_wake_at)
    /\ st_wake_at' = elapsed(st_wake_at)
    /\ UNCHANGED <<now, st_pc, runtime, snapshot, reply, devices, last_devices_hash,
                   watchVars, sup_pc, current, cur, sup_backoff, status, probe, track>>
NextError ==
    \/ SupStartCaptureOk
    \/ SupTaskResult
    \/ \E i \in SessionIds :
        \/ TaskStart(i)
        \/ TaskDialOk(i)
        \/ TaskDialFail(i)
        \/ TaskSleepWake(i)
        \/ TaskRecvErr(i)
        \/ FirstError(i) /\ CaptureError(i)
    \/ TickShift
\* every task that can take a step takes it, every dial ends (one way or the
\* other), and time passes
SpecError ==
    /\ InitDial /\ [][NextError]_vars
    /\ WF_vars(TickShift)
    /\ WF_vars(SupStartCaptureOk) /\ WF_vars(SupTaskResult)
    /\ \A i \in SessionIds :
          /\ WF_vars(TaskStart(i))
          /\ WF_vars(TaskDialOk(i) \/ TaskDialFail(i))
          /\ WF_vars(TaskSleepWake(i))
          /\ WF_vars(TaskRecvErr(i))

\* C19: an error that the capture callback put on the error queue of a running
\* session is eventually the terminal result of that session's ingest task.
C19_ErrorSurfaces ==
    \A i \in SessionIds :
        (i \in DOMAIN sessions /\ sessions[i].task = "running"
                               /\ sessions[i].err_queue # <<>>)
        ~> (i \in DOMAIN sessions /\ sessions[i].task = "returned")

(***************************************************************************)
(* A retuned gate, with time that never stops: the server answers the      *)
(* first status exchange with the threshold -30 dB, the ingest server is   *)
(* always reachable.  No audio in these runs.                              *)
(***************************************************************************)
RetuneReplies == {FullReply(Some("in1"), Some(threshold), None, None) :
                     threshold \in Thresholds}
NextRetune ==
    \/ StatusSnapshot
    \/ \E response \in RetuneReplies : StatusPostOk(response)
    \/ SupStartCaptureOk
    \/ SupConfigChanged
    \/ \E i \in SessionIds :
        \/ TaskStart(i)
        \/ TaskDialOk(i)
        \/ TaskRecvClosed(i)
        \/ TaskRecvErr(i)
        \/ TaskVadChanged(i)
    \/ TickShift
\* every task that can take a step takes it, every POST and every dial ends,
\* and time passes
SpecRetune ==
    /\ InitDial /\ [][NextRetune]_vars
    /\ WF_vars(TickShift)
    /\ WF_vars(StatusSnapshot)
    /\ WF_vars(\E response \in RetuneReplies : StatusPostOk(response))
    /\ WF_vars(SupStartCaptureOk) /\ WF_vars(SupConfigChanged)
    /\ \A i \in SessionIds :
          /\ WF_vars(TaskStart(i))
          /\ WF_vars(TaskDialOk(i))
          /\ WF_vars(TaskRecvClosed(i))
          /\ WF_vars(TaskRecvErr(i))
          /\ WF_vars(TaskVadChanged(i))

\* C26: a running session whose pair is older than the published one
\* eventually runs with the published pair, and is not aborted.
C26_AdoptsLatest ==
    \A i \in SessionIds :
        (/\ i \in DOMAIN sessions /\ sessions[i].task = "running"
         /\ sessions[i].vad_unseen
         /\ <<sessions[i].threshold_db, sessions[i].hold_duration>> # vad_watch)
        ~> (/\ i \in DOMAIN sessions /\ sessions[i].task # "aborted"
            /\ <<sessions[i].threshold_db, sessions[i].hold_duration>> = vad_watch)

\* a device that may refuse to open: capture starts fail or succeed, the
\* server retunes the gate in its first status reply, the ingest server is
\* reachable
NextCapture ==
    \/ StatusSnapshot
    \/ \E response \in RetuneReplies : StatusPostOk(response)
    \/ SupStartCaptureOk
    \/ SupStartCaptureErr
    \/ SupSleepWake
    \/ SupConfigChanged
    \/ \E i \in SessionIds :
        \/ TaskStart(i)
        \/ TaskDialOk(i)
        \/ TaskRecvClosed(i)
    \/ st_pc # "snapshot" /\ Tick
SpecCapture == InitDial /\ [][NextCapture]_vars

\* the supervisor's start_capture fails in this step
CaptureFails == sup_pc = "top" /\ sup_pc' = "sleep"

\* C30: a failed capture start sets ERROR and last_error, starts nothing and
\* sleeps the supervisor backoff delay, which then doubles up to the cap; the
\* sleep ends no sooner, at the loop top, where the configuration then on the
\* watch is taken.  A successful start puts the delay back to 1 s, and nothing
\* but a failed start moves it from there.
C30_CaptureRetry ==
    [][/\ CaptureFails
            => /\ status'.state = "ERROR" /\ IsSome(status'.last_error)
               /\ sessions' = sessions
               /\ sup_wake_at' = now + sup_backoff * 1000
               /\ sup_backoff' = Min(2 * sup_backoff, BACKOFF_CAP_S)
       /\ (sup_pc = "sleep" /\ sup_pc' # "sleep")
            => now >= sup_wake_at /\ sup_pc' = "top"
       /\ (sup_pc = "top" /\ sup_pc' # "top") => current' = Some(config_watch)
       /\ SessionStarted => sup_backoff' = BACKOFF_START_S
       /\ sup_backoff' # sup_backoff => CaptureFails \/ SessionStarted
      ]_vars

\* a capture start failed after a session had run, two failures and 3 s of
\* sleep or more into the run: the supervisor sleeps 1 s
C30_Witness ==
    /\ sup_pc = "sleep" /\ Len(sessions) >= 1 /\ now >= 3 * TickMs
    /\ sup_backoff = 2 * BACKOFF_START_S
    /\ sup_wake_at = now + BACKOFF_START_S * 1000
    /\ status.state = "ERROR" /\ status.last_error = Some("capture failed")

(***************************************************************************)
(* The device list: devices come and go between the status exchanges, the  *)
(* POST succeeds or fails; time is relative, the exchanges are counted.    *)
(***************************************************************************)
MaxPosts == 3
NextDevices ==
    \/ track.reads < MaxPosts /\ StatusSnapshot
    \/ \E response \in IngestReplies : StatusPostOk(response)
    \/ StatusPostErr
    \/ \E new_devices \in DeviceLists : StatusWake(new_devices)
    \/ SupStartCaptureOk
    \/ \E i \in SessionIds : TaskStart(i) \/ TaskDialOk(i)
    \/ TickShift
SpecDevices == InitWith(IngestReplies, DeviceLists) /\ [][NextDevices]_vars

\* C32: the body of a status POST carries the device list when the list differs
\* from the list enumerated for the previous POST, and always in the first POST;
\* otherwise the body has no device list.
C32_ListWhenChanged ==
    [][(st_pc = "snapshot" /\ st_pc' = "posting") =>
          Unwrap(snapshot').capture_devices =
              IF track.posted = None \/ Unwrap(track.posted) # devices
              THEN Some(devices) ELSE None
      ]_vars

\* the third POST, with two devices enumerated as for the second, has no list
C32_Witness ==
    /\ st_pc = "posting" /\ track.reads = 3
    /\ devices = <<"hw:0", "hw:1">> /\ last_devices_hash = Some(hash_capture_devices(devices))
    /\ Unwrap(snapshot).capture_devices = None

(***************************************************************************)
(* The capture queue under a free-running callback: the device offers      *)
(* chunks at any moment, as many as it likes, while the ingest task dials, *)
(* sleeps, receives and sends.                                             *)
(***************************************************************************)
QueueHorizon == 1
MaxSends == 1
\* two chunks that differ, both above the default threshold
QueueChunks == {c \in Chunks : c.amp # 0}
MaxDials == 1
DialsLeft(i) == i \in DOMAIN sessions /\ Len(sessions[i].dials) < MaxDials
InitQueue == InitWith(IngestReplies, {<<"hw:0">>})
NextQueue ==
    \/ SupStartCaptureOk
    \/ \E i \in SessionIds :
        \/ TaskStart(i)
        \/ DialsLeft(i) /\ TaskDialOk(i)
        \/ DialsLeft(i) /\ TaskDialFail(i)
        \/ TaskSleepWake(i)
        \/ \E sent \in BOOLEAN :
              /\ sent => status.bytes_sent_total < MaxSends * ChunkLen
              /\ TaskRecvChunk(i, sent)
        \/ \E chunk \in QueueChunks : CaptureBurst(i, chunk)
    \/ AtSuspension /\ now < QueueHorizon * TickMs /\ Tick
SpecQueue == InitQueue /\ [][NextQueue]_vars

\* C15: the capture queue never holds more than 8 chunks, and it changes only
\* by a chunk being appended while it holds fewer than 8, or by the consumer
\* taking its head: a callback that finds it full leaves every queued chunk in
\* place and drops its own.
C15_QueueBounded ==
    /\ [](\A i \in DOMAIN sessions : Len(sessions[i].queue) <= CHUNK_QUEUE_CAP)
    /\ [][\A i \in DOMAIN sessions :
            \/ sessions'[i].queue = sessions[i].queue
            \/ /\ Len(sessions[i].queue) < CHUNK_QUEUE_CAP
               /\ \E chunk \in Chunks : sessions'[i].queue = Append(sessions[i].queue, chunk)
            \/ /\ sessions[i].queue # <<>>
               /\ sessions'[i].queue = Tail(sessions[i].queue)]_vars

\* a callback found the queue full while the client sleeps a backoff; the
\* queue still holds its 8 chunks, the first and last being different ones
C15_Witness ==
    \E i \in DOMAIN sessions :
        /\ sessions[i].overflowed
        /\ sessions[i].pc = "sleeping"
        /\ Len(sessions[i].queue) = CHUNK_QUEUE_CAP
        /\ sessions[i].queue[1] # sessions[i].queue[CHUNK_QUEUE_CAP]

RECURSIVE PcmTimes(_)
\* the production times of the chunks written on the connections `wire`, in the
\* order of writing
PcmTimes(wire) ==
    IF wire = <<>> THEN <<>>
    ELSE PcmTimes(SubSeq(wire, 1, Len(wire) - 1)) \o
         [k \in 1 .. Len(SelectSeq(wire[Len(wire)].items, LAMBDA it : it.kind = "pcm")) |->
             SelectSeq(wire[Len(wire)].items, LAMBDA it : it.kind = "pcm")[k].at]

RECURSIVE IsSubsequence(_, _)
IsSubsequence(a, b) ==
    IF a = <<>> THEN TRUE
    ELSE IF b = <<>> THEN FALSE
    ELSE IF Head(a) = Head(b) THEN IsSubsequence(Tail(a), Tail(b))
    ELSE IsSubsequence(a, Tail(b))

\* C13: in every session the chunks written to the transport, over all its
\* connections, are an order-preserving subsequence of the chunks the capture
\* callback produced: none twice, none out of order.
C13_WireOrder ==
    \A i \in DOMAIN sessions :
        IsSubsequence(PcmTimes(sessions[i].wire), sessions[i].produced)

\* two chunks that waited in the queue together while the client was
\* disconnected, written in their order on the connection made afterwards
C13_Witness ==
    \E i \in DOMAIN sessions : \E c \in DOMAIN sessions[i].wire :
        /\ Len(sessions[i].produced) >= 2
        /\ sessions[i].produced[2] <= sessions[i].wire[c].at
        /\ PcmTimes(<<sessions[i].wire[c]>>) =
               <<sessions[i].produced[1], sessions[i].produced[2]>>

\* C14: on a connection established after a disconnect, no chunk is written
\* that the capture callback produced before that connection was established.
C14_NothingAcrossBreak ==
    \A i \in DOMAIN sessions :
        \A c \in 2 .. Len(sessions[i].wire) :
            sessions[i].wire[c - 1].items # <<>> =>
                \A k \in DOMAIN sessions[i].wire[c].items :
                    sessions[i].wire[c].items[k].at >= sessions[i].wire[c].at

\* C16: every TCP connection carries the header line "{assigned_input_id}\n"
\* once, as its first write, and PCM only after it; a connection whose header
\* write failed carries nothing.
C16_HeaderFirst ==
    \A i \in DOMAIN sessions :
        /\ sessions[i].conn => sessions[i].wire # <<>>
                                /\ sessions[i].wire[Len(sessions[i].wire)].items # <<>>
        /\ \A c \in DOMAIN sessions[i].wire :
              LET items == sessions[i].wire[c].items
              IN  items # <<>> =>
                    /\ items[1].kind = "header"
                    /\ items[1].data = <<sessions[i].ingest.header, "\n">>
                    /\ \A k \in 2 .. Len(items) : items[k].kind = "pcm"

\* a first connection with PCM, a connection whose header write failed, and a
\* redial with the header and PCM again
C16_Witness ==
    \E i \in DOMAIN sessions :
        /\ Len(sessions[i].wire) = 3
        /\ Len(sessions[i].wire[1].items) >= 2
        /\ sessions[i].wire[2].items = <<>>
        /\ Len(sessions[i].wire[3].items) >= 2

(***************************************************************************)
(* Claims about the gate and the track_change flag.                        *)
(***************************************************************************)
\* a control-plane read happens in this step
ReadStep == track'.reads = track.reads + 1

\* session i takes a chunk off its queue in this step
ChunkStep(i) ==
    /\ i \in DOMAIN sessions /\ sessions[i].pc = "select"
    /\ sessions[i].queue # <<>>
    /\ sessions'[i].queue = Tail(sessions[i].queue)
ChunkDb(i) == Unwrap(rms_db_from_pcm_i16_le(Head(sessions[i].queue)))
Pending == IF status.track_change THEN 1 ELSE 0

C9_SilenceThenLoud ==
    [][\A i \in SessionIds :
          /\ ChunkStep(i) /\ ChunkDb(i) = -30
          /\ sessions[i].threshold_db = -45 /\ sessions[i].hold_duration = 2000
          /\ sessions[i].silent_run >= 3
          /\ IsSome(sessions[i].silent_since)
          /\ now - Unwrap(sessions[i].silent_since) >= 3000
          => sessions'[i].gate.active /\ status'.track_change
      ]_vars

\* C10: a chunk with rms_db >= threshold_db processed while the gate is active
\* leaves the gate active, is not a rising edge (idle_since is kept) and does not
\* call set_track_change().
C10_ActiveStaysActive ==
    [][\A i \in SessionIds :
          /\ ChunkStep(i) /\ sessions[i].gate.active
          /\ ChunkDb(i) >= sessions[i].threshold_db
          => /\ sessions'[i].gate.active
             /\ sessions'[i].idle_since = sessions[i].idle_since
             /\ track'.unread_sets = track.unread_sets
             /\ status'.track_change = status.track_change
      ]_vars

\* two chunks in the first two seconds, both sent, the second above the
\* threshold while the first had made the gate active
C10_Witness ==
    \E i \in DOMAIN sessions :
        /\ now = TickMs /\ status.bytes_sent_total = 2 * ChunkLen
        /\ status.rms_db = Some(-30) /\ sessions[i].threshold_db <= -30
        /\ sessions[i].gate = [active |-> TRUE, last_active |-> Some(now)]

\* C11: a chunk after which the gate is inactive is dropped: bytes_sent_total
\* and last_chunk_ts are unchanged, the state is IDLE, and the transport that
\* was connected before the chunk is still connected, the task back at its
\* select without a dial.
C11_SilenceKeepsTransport ==
    [][\A i \in SessionIds :
          ChunkStep(i) /\ ~sessions'[i].gate.active =>
              /\ status'.bytes_sent_total = status.bytes_sent_total
              /\ status'.last_chunk_ts = status.last_chunk_ts
              /\ status'.state = "IDLE"
              /\ sessions'[i].conn = sessions[i].conn
              /\ sessions[i].conn => sessions'[i].pc = "select"
      ]_vars

\* after a sent chunk the gate fell on a silent chunk: nothing more was sent and
\* the transport is still connected
C11_Witness ==
    \E i \in DOMAIN sessions :
        /\ status.bytes_sent_total = ChunkLen /\ status.state = "IDLE"
        /\ status.rms_db = Some(-100) /\ IsSome(sessions[i].idle_since)
        /\ ~sessions[i].gate.active /\ sessions[i].conn /\ sessions[i].pc = "select"

\* C33: the published state follows the running session: RECONNECTING while it
\* dials, STREAMING only with a transport and an active gate, IDLE with a
\* transport and an inactive gate.
C33_StateFollowsSession ==
    \A i \in DOMAIN sessions :
        sessions[i].task = "running" =>
            /\ sessions[i].pc = "dialing" => status.state = "RECONNECTING"
            /\ status.state = "STREAMING" => sessions[i].conn /\ sessions[i].gate.active
            /\ sessions[i].conn /\ ~sessions[i].gate.active => status.state = "IDLE"

(***************************************************************************)
(* The gate under retuning: registered with a short hold time, the server  *)
(* answers the first status exchange with the long one and a new threshold *)
(* while silence and loud audio arrive.                                                     *)
(***************************************************************************)
HoldHorizon == 2
HoldInitialConfigs == {FullReply(Some("in1"), None, Some(hold), None) : hold \in Holds}
HoldReplies == {FullReply(Some("in1"), threshold, Some(DEFAULT_VAD_HOLD_MS), None) :
                   threshold \in {Some(x) : x \in Thresholds}}
InitHold == InitWith(HoldInitialConfigs, {<<"hw:0">>})
NextHold ==
    \/ StatusSnapshot
    \/ \E response \in HoldReplies : StatusPostOk(response)
    \/ SupStartCaptureOk
    \/ SupConfigChanged
    \/ \E i \in SessionIds :
        \/ TaskStart(i)
        \/ TaskDialOk(i)
        \/ TaskRecvChunk(i, TRUE)
        \/ TaskRecvClosed(i)
        \/ TaskVadChanged(i)
        \/ \E chunk \in GateChunks : CaptureData(i, chunk)
    \/ st_pc # "snapshot" /\ now < HoldHorizon * TickMs /\ Tick
SpecHold == InitHold /\ [][NextHold]_vars

\* C24: after a chunk with an envelope, the gate is active with last_active =
\* now when rms_db >= threshold_db; otherwise it is active, last_active kept,
\* when it was active before the chunk and now - last_active <= hold_duration;
\* otherwise it is inactive.  A chunk below the threshold never turns an
\* inactive gate active, whatever hold_duration has become.
C24_GateRule ==
    [][\A i \in SessionIds :
          ChunkStep(i) =>
              LET gate == sessions[i].gate
                  held == /\ gate.active /\ IsSome(gate.last_active)
                          /\ now - Unwrap(gate.last_active) <= sessions[i].hold_duration
              IN  /\ ChunkDb(i) >= sessions[i].threshold_db
                        => sessions'[i].gate = [active |-> TRUE, last_active |-> Some(now)]
                  /\ ChunkDb(i) < sessions[i].threshold_db /\ held
                        => sessions'[i].gate = gate
                  /\ ChunkDb(i) < sessions[i].threshold_db /\ ~held
                        => ~sessions'[i].gate.active
                  /\ ChunkDb(i) < sessions[i].threshold_db /\ ~gate.active
                        => ~sessions'[i].gate.active
      ]_vars

\* the gate fell under the short hold time, the session adopted the long one,
\* and a silent chunk inside the long hold time left the gate inactive
C24_Witness ==
    \E i \in DOMAIN sessions :
        /\ sessions[i].held_off /\ ~sessions[i].gate.active
        /\ sessions[i].hold_duration = DEFAULT_VAD_HOLD_MS
        /\ IsSome(sessions[i].gate.last_active)
        /\ now - Unwrap(sessions[i].gate.last_active) <= sessions[i].hold_duration
        /\ status.rms_db = Some(-100)

(***************************************************************************)
(* Status Register alone: set_track_change(), set_state() and              *)
(* bridge_status() called in any order.                                    *)
(***************************************************************************)
InitRegister == InitWith(IngestReplies, {<<"hw:0">>})
NextRegister ==
    \/ ProbeBridgeStatus
    \/ ProbeSetTrackChange
    \/ \E state \in {"IDLE", "STREAMING"} : ProbeSetState(state)
SpecRegister == InitRegister /\ [][NextRegister]_vars

\* C7: a control-plane read returns track_change = true exactly when
\* set_track_change() was called since the previous read (or since the start),
\* and it leaves the flag cleared; otherwise it returns track_change absent.
C7_ReadConsumesFlag ==
    /\ [](status.track_change <=> track.unread_sets > 0)
    /\ [][ReadStep =>
            /\ Unwrap(snapshot').track_change =
                    (IF track.unread_sets > 0 THEN Some(TRUE) ELSE None)
            /\ status'.track_change = FALSE
         ]_vars

\* a read has returned true, and the latest read, with no set_track_change()
\* in between, returned absent
C7_Witness ==
    /\ track.true_reads = 1 /\ track.reads > 1 /\ track.unread_sets = 0
    /\ IsSome(snapshot) /\ Unwrap(snapshot).track_change = None
    /\ ~status.track_change

(***************************************************************************)
(* Configuration merge alone: any registration reply, then one status      *)
(* exchange with any reply.                                                *)
(***************************************************************************)
\* registration replies: unassigned or fully assigned, with any tuning fields
InitialConfigs ==
    {r \in Responses :
        \/ /\ r.assigned_input_id = None /\ r.ingest_ws_url = None
           /\ r.ingest_tcp_host = None /\ r.ingest_tcp_port = None
           /\ r.capture_device = None
        \/ /\ r.assigned_input_id = Some("in1") /\ r.ingest_ws_url = None
           /\ r.ingest_tcp_host # None /\ r.ingest_tcp_port # None
           /\ r.capture_device # None}

InitConfig == InitWith(InitialConfigs, {<<"hw:0">>})
NextConfig ==
    \/ StatusSnapshot
    \/ \E response \in Responses : StatusPostOk(response)
    \/ StatusPostErr
SpecConfig == InitConfig /\ [][NextConfig]_vars

(***************************************************************************)
(* Claims about the configuration merge.                                   *)
(***************************************************************************)
\* the status exchange that has just merged `reply'` into the runtime configuration
Merged == st_pc = "posting" /\ st_pc' = "sleeping" /\ IsSome(reply')

VadOnly(response) ==
    /\ response.assigned_input_id = None /\ response.ingest_ws_url = None
    /\ response.ingest_tcp_host = None /\ response.ingest_tcp_port = None
    /\ response.capture_device = None /\ response.ingest_sample_rate = None
    /\ response.ingest_resampler = None
    /\ (response.vad_threshold_db # None \/ response.vad_hold_ms # None)

KeyFieldsDiffer(a, b) ==
    \/ a.assigned_input_id # b.assigned_input_id
    \/ a.ingest_ws_url # b.ingest_ws_url
    \/ a.ingest_tcp_host # b.ingest_tcp_host
    \/ a.ingest_tcp_port # b.ingest_tcp_port
    \/ a.capture_device # b.capture_device
    \/ a.target_rate # b.target_rate
    \/ a.resampler # b.resampler

\* C2: merging a reply that carries only VAD fields leaves stream_key() unchanged,
\* and merging a reply that changes a key field changes stream_key().
C2_VadOnlyKeepsKey ==
    [][Merged =>
        /\ VadOnly(Unwrap(reply')) => stream_key(runtime') = stream_key(runtime)
        /\ KeyFieldsDiffer(runtime, runtime') => stream_key(runtime') # stream_key(runtime)
      ]_vars

\* C31: merging a reply leaves every field of the runtime configuration that
\* the reply does not carry at its current value.
C31_AbsentKeepsField ==
    [][Merged =>
        LET response == Unwrap(reply')
        IN  /\ response.assigned_input_id = None
                  => runtime'.assigned_input_id = runtime.assigned_input_id
            /\ response.ingest_ws_url = None => runtime'.ingest_ws_url = runtime.ingest_ws_url
            /\ response.ingest_tcp_host = None
                  => runtime'.ingest_tcp_host = runtime.ingest_tcp_host
            /\ response.ingest_tcp_port = None
                  => runtime'.ingest_tcp_port = runtime.ingest_tcp_port
            /\ response.capture_device = None
                  => runtime'.capture_device = runtime.capture_device
            /\ response.vad_threshold_db = None
                  => runtime'.vad_threshold_db = runtime.vad_threshold_db
            /\ response.vad_hold_ms = None => runtime'.vad_hold_ms = runtime.vad_hold_ms
            /\ response.ingest_sample_rate = None => runtime'.target_rate = runtime.target_rate
            /\ response.ingest_resampler = None => runtime'.resampler = runtime.resampler
      ]_vars

\* the transport part of readiness, as the specification words it
TransportSpecified(c) ==
    ~(c.ingest_ws_url = None /\ (c.ingest_tcp_host = None \/ c.ingest_tcp_port = None))

\* C4: is_ready() holds exactly when assigned_input_id and capture_device are set
\* and one transport is fully specified (a URL, or a host together with a port).
C4_ReadyIff ==
    \A c \in {runtime, config_watch} :
        is_ready(c) <=> /\ c.assigned_input_id # None
                        /\ c.capture_device # None
                        /\ TransportSpecified(c)

\* a merge has produced a configuration that is ready over TCP alone, and one
\* is published that lacks only the port
C4_Witness ==
    /\ st_pc = "sleeping" /\ IsSome(reply)
    /\ runtime.ingest_ws_url = None /\ is_ready(runtime)
C4_WitnessNotReady ==
    /\ st_pc = "sleeping" /\ IsSome(reply)
    /\ runtime.ingest_ws_url = None /\ runtime.ingest_tcp_host # None
    /\ runtime.ingest_tcp_port = None /\ ~is_ready(runtime)

(***************************************************************************)
(* Backoff harness: a fresh Backoff of each implementation, next_delay()   *)
(* and reset() called in any order.  calls counts the next_delay() calls   *)
(* since new() or the last reset(); last is the delay the last call        *)
(* returned.                                                               *)
(***************************************************************************)
ProbeClientNextDelay ==
    /\ probe.cl.calls < MaxCalls
    /\ LET r == Backoff_next_delay(probe.cl.current)
       IN  probe' = [probe EXCEPT !.cl = [current |-> r.current, calls |-> @.calls + 1,
                                          last |-> r.delay]]
    /\ UNCHANGED <<now, stVars, watchVars, supVars, status, sessions, track>>

ProbeClientReset ==
    /\ probe.cl.calls > 0
    /\ probe' = [probe EXCEPT !.cl.current = Backoff_reset(@), !.cl.calls = 0]
    /\ UNCHANGED <<now, stVars, watchVars, supVars, status, sessions, track>>

ProbeSupNextDelay ==
    /\ probe.sup.calls < MaxCalls
    /\ LET r == SupBackoff_next_delay(probe.sup.current)
       IN  probe' = [probe EXCEPT !.sup = [current |-> r.current, calls |-> @.calls + 1,
                                           last |-> r.delay]]
    /\ UNCHANGED <<now, stVars, watchVars, supVars, status, sessions, track>>

ProbeSupReset ==
    /\ probe.sup.calls > 0
    /\ probe' = [probe EXCEPT !.sup.current = SupBackoff_reset(@), !.sup.calls = 0]
    /\ UNCHANGED <<now, stVars, watchVars, supVars, status, sessions, track>>

InitBackoff == InitWith(InitialConfigs, {<<"hw:0">>})
NextBackoff ==
    ProbeClientNextDelay \/ ProbeClientReset \/ ProbeSupNextDelay \/ ProbeSupReset
SpecBackoff == InitBackoff /\ [][NextBackoff]_vars

\* the n-th delay of the sequence 1, 2, 4, 8, 16, 30, 30, ...
ExpectedDelay(n) == IF n >= 6 THEN 30 ELSE 2 ^ (n - 1)

\* C5: for both Backoff implementations the n-th next_delay() after new() or
\* after a reset() returns the n-th of 1, 2, 4, 8, 16, 30, 30, ... seconds.
C5_BackoffSequence ==
    \A b \in {probe.cl, probe.sup} :
        b.calls >= 1 => b.last = ExpectedDelay(b.calls) /\ b.last <= 30

\* the client Backoff was reset after it reached the cap, and the supervisor
\* Backoff has returned the cap twice
C5_Witness ==
    /\ probe.cl.calls = 0 /\ probe.cl.last = 30 /\ probe.cl.current = 1
    /\ probe.sup.calls = 7 /\ probe.sup.last = 30

(***************************************************************************)
(* audio.rs: the data callback, from the device buffer to the chunk it    *)
(* offers.  Only lengths are kept: of the device buffer in samples, of the *)
(* resamplers' buffers, of the output in i16 samples and of the chunk in   *)
(* bytes.  LinearResampler.pos is kept as the numerator of a fraction over *)
(* target_rate, which is exact where the f64 of the code rounds.  The      *)
(* rates are small numbers so that the buffer cap of one second            *)
(* (channels * target_rate samples) is within reach of a few callbacks.    *)
(***************************************************************************)
ProbeRate == 4
\* device rates: below the target, the target itself (no resampling), and more
\* than twice the target
InRates == {ProbeRate - 1, ProbeRate, 2 * ProbeRate + 1}
\* frames the sinc resampler takes per call (input_frames_next)
SincFrames == 2
\* what the library's process() may answer: an error, one channel, or two
\* channels (empty, of equal lengths, of different lengths); the lengths of
\* the channels are given
SincAnswers ==
    {[ok |-> FALSE, output |-> <<>>]}
    \cup {[ok |-> TRUE, output |-> output] :
              output \in {<<1>>, <<0, 0>>, <<1, 1>>, <<1, 2>>}}
\* the library is consulted in the sinc modes only
AnswersFor(mode) ==
    IF mode = "Linear" THEN {<<[ok |-> FALSE, output |-> <<>>]>>}
    ELSE [1 .. 2 -> SincAnswers]

\* a pass-through for every stereo buffer, whole frames or not
convert_direct_any_length(data, channels) ==
    IF channels = TARGET_CHANNELS THEN data ELSE 2 * (data \div channels)

\* 226-241: the samples pass through when the device is stereo and the buffer
\* holds whole frames; otherwise each whole frame gives a left and a right sample
convert_direct_to_i16(data, channels) ==
    IF channels = TARGET_CHANNELS /\ data % 2 = 0 THEN data
    ELSE 2 * (data \div channels)

\* 559-572
interleave_to_i16(output) ==
    IF Len(output) < TARGET_CHANNELS THEN 0 ELSE 2 * Min(output[1], output[2])

LinearResampler_new == [pos |-> 0, buffer |-> 0]

RECURSIVE linear_loop(_, _, _, _, _)
\* 425-445: one stereo frame per position below the last whole frame
linear_loop(pos, available_frames, in_rate, target_rate, out) ==
    IF pos + target_rate < available_frames * target_rate
    THEN linear_loop(pos + in_rate, available_frames, in_rate, target_rate, out + 2)
    ELSE [pos |-> pos, out |-> out]

\* 400-455; drain(0..drop_samples) panics when the range ends beyond the buffer
LinearResampler_process(linear, input, in_channels, in_rate, target_rate) ==
    IF input = 0 \/ in_channels = 0
    THEN [linear |-> linear, out |-> 0, panicked |-> FALSE]
    ELSE LET extended == linear.buffer + input
             max_samples == in_channels * target_rate
             over == extended > max_samples
             buffer == IF over THEN max_samples ELSE extended
             dropped == (extended - max_samples) \div in_channels
             pos == IF ~over THEN linear.pos
                    ELSE IF linear.pos - dropped * target_rate > 0
                         THEN linear.pos - dropped * target_rate ELSE 0
             done == linear_loop(pos, buffer \div in_channels, in_rate, target_rate, 0)
             drop_frames == done.pos \div target_rate
             drop_samples == drop_frames * in_channels
         IN  IF drop_frames > 0 /\ drop_samples > buffer
             THEN [linear |-> [pos |-> done.pos, buffer |-> buffer],
                   out |-> done.out, panicked |-> TRUE]
             ELSE [linear |-> [pos |-> done.pos - drop_frames * target_rate,
                               buffer |-> buffer - drop_samples],
                   out |-> done.out, panicked |-> FALSE]

SincResampler_new == [pending |-> 0, pending_offset |-> 0]

RECURSIVE sinc_loop(_, _, _, _)
\* 493-519: as long as a full block is pending the library is called; answers
\* gives its answer to the k-th call
sinc_loop(sinc, answers, k, out) ==
    LET available == IF sinc.pending > sinc.pending_offset
                     THEN sinc.pending - sinc.pending_offset ELSE 0
        answer == answers[((k - 1) % Len(answers)) + 1]
        end == sinc.pending_offset + SincFrames
    IN  IF available < SincFrames THEN [sinc |-> sinc, out |-> out]
        ELSE IF ~answer.ok THEN [sinc |-> sinc, out |-> out]
        ELSE sinc_loop(IF end >= sinc.pending \div 2
                       THEN [pending |-> sinc.pending - end, pending_offset |-> 0]
                       ELSE [sinc EXCEPT !.pending_offset = end],
                       answers, k + 1, out + interleave_to_i16(answer.output))

\* 490-519, 521-532: push_stereo_frames, then the loop
SincResampler_process(sinc, input, in_channels, answers) ==
    sinc_loop([sinc EXCEPT !.pending = @ + input \div in_channels], answers, 1, 0)

\* 256-283
Resampler_new(in_rate, in_channels, target_rate, mode) ==
    [built |-> TRUE, poisoned |-> FALSE, mode |-> mode, channels |-> in_channels,
     in_rate |-> in_rate, target_rate |-> target_rate,
     linear |-> LinearResampler_new, sinc |-> SincResampler_new,
     calls |-> 0, data |-> 0, offered |-> None]

\* 285-287
needs_resample_rate(rs) == rs.in_rate # rs.target_rate

\* 309-343, 345-371: every 2 s the rate is measured; a rate that differs from
\* in_rate replaces it and the resampler of the mode starts afresh
observe_input(rs, observed) ==
    IF IsSome(observed) /\ Unwrap(observed) # rs.in_rate
    THEN [rs EXCEPT !.in_rate = Unwrap(observed),
                    !.linear = IF rs.mode = "Linear" THEN LinearResampler_new ELSE @,
                    !.sinc = IF rs.mode = "Linear" THEN @ ELSE SincResampler_new]
    ELSE rs

\* 289-307
Resampler_process(rs, input, in_channels, answers) ==
    IF input = 0 \/ in_channels = 0 THEN [rs |-> rs, out |-> 0]
    ELSE IF rs.mode = "Linear"
    THEN LET r == LinearResampler_process(rs.linear, input, in_channels,
                                          rs.in_rate, rs.target_rate)
         IN  [rs |-> [rs EXCEPT !.linear = r.linear, !.poisoned = r.panicked],
              out |-> IF r.panicked THEN 0 ELSE r.out]
    ELSE LET r == SincResampler_process(rs.sinc, input, in_channels, answers)
         IN  [rs |-> [rs EXCEPT !.sinc = r.sinc], out |-> r.out]

\* 195-224: the callback; a resampler whose lock is poisoned (a callback
\* panicked while holding it) ends the callback at once; `offered` is the
\* length in bytes of the chunk passed to try_send, if one is
handle_samples_f32(rs, data, observed, answers) ==
    IF rs.poisoned
    THEN [rs EXCEPT !.calls = @ + 1, !.data = data, !.offered = None]
    ELSE LET seen == observe_input(rs, observed)
             r == IF needs_resample_rate(seen)
                  THEN Resampler_process(seen, data, seen.channels, answers)
                  ELSE [rs |-> seen, out |-> convert_direct_to_i16(data, seen.channels)]
         IN  [r.rs EXCEPT !.calls = @ + 1, !.data = data,
                          !.offered = IF r.out = 0 \/ r.rs.poisoned THEN None
                                      ELSE Some(2 * r.out)]

\* start_capture builds the resampler for the device's channel count and rate
ProbeResamplerNew ==
    /\ ~probe.rs.built
    /\ \E mode \in ResamplerModes, in_channels \in 1 .. MaxChannels, in_rate \in InRates :
          probe' = [probe EXCEPT !.rs = Resampler_new(in_rate, in_channels, ProbeRate, mode)]
    /\ UNCHANGED <<now, stVars, watchVars, supVars, status, sessions, track>>

\* the device calls back with a buffer of any length
ProbeSamples ==
    /\ probe.rs.built /\ probe.rs.calls < MaxCallbacks
    /\ \E data \in 0 .. MaxData, observed \in Opt(InRates),
          answers \in AnswersFor(probe.rs.mode) :
          probe' = [probe EXCEPT !.rs = handle_samples_f32(@, data, observed, answers)]
    /\ UNCHANGED <<now, stVars, watchVars, supVars, status, sessions, track>>

InitResample == InitWith(IngestReplies, {<<"hw:0">>})
NextResample == ProbeResamplerNew \/ ProbeSamples
SpecResample == InitResample /\ [][NextResample]_vars

\* C20: whatever the resampler mode, channel count, rates and buffer length,
\* a chunk the callback offers to the queue is not empty and its length is a
\* multiple of 4 bytes.
C20_WholeFrames ==
    (probe.rs.built /\ IsSome(probe.rs.offered))
        => (Unwrap(probe.rs.offered) > 0 /\ Unwrap(probe.rs.offered) % 4 = 0)

\* a stereo device without resampling delivered a buffer that ends in half a
\* frame, and the callback offered the whole frames of it
C20_Witness ==
    /\ probe.rs.built /\ ~needs_resample_rate(probe.rs)
    /\ probe.rs.channels = TARGET_CHANNELS
    /\ probe.rs.data = 5
    /\ probe.rs.offered = Some(8)

(***************************************************************************)
(* audio.rs: the callback without resampling, on sample values.  A sample  *)
(* is given in quarters (4 is 1.0, -2 is -0.5, 6 is 1.5): these values and *)
(* their products with 32767 are exact in f32.                             *)
(***************************************************************************)
Samples == {-6, -4, -2, -1, 0, 1, 2, 4, 6}

\* a conversion that rounds down instead of toward zero
f32_to_i16_floors(sample) ==
    LET clamped == IF sample < -4 THEN -4 ELSE IF sample > 4 THEN 4 ELSE sample
    IN  (clamped * I16_MAX) \div 4

\* 251-254: clamp to [-1, 1], scale by i16::MAX, `as i16` truncates toward zero
f32_to_i16(sample) ==
    LET clamped == IF sample < -4 THEN -4 ELSE IF sample > 4 THEN 4 ELSE sample
        scaled == clamped * I16_MAX
    IN  IF scaled >= 0 THEN scaled \div 4 ELSE -((-scaled) \div 4)

\* 243-249
map_channels(frame, channels) ==
    CASE channels = 0 -> <<0, 0>>
      [] channels = 1 -> <<frame[1], frame[1]>>
      [] OTHER -> <<frame[1], frame[2]>>

RECURSIVE direct_frames(_, _, _, _)
\* 231-240: left and right of every whole frame; idx counts from 0
direct_frames(data, channels, idx, out) ==
    IF idx + channels <= Len(data)
    THEN LET lr == map_channels(SubSeq(data, idx + 1, idx + channels), channels)
         IN  direct_frames(data, channels, idx + channels,
                           out \o <<f32_to_i16(lr[1]), f32_to_i16(lr[2])>>)
    ELSE out

\* 251-254 for a sample given as a fraction: value / den quarters
f32_to_i16_over(value, den) ==
    LET clamped == IF value < -4 * den THEN -4 * den
                   ELSE IF value > 4 * den THEN 4 * den ELSE value
        scaled == clamped * I16_MAX
    IN  IF scaled >= 0 THEN scaled \div (4 * den) ELSE -((-scaled) \div (4 * den))

\* 226-241 on the samples themselves
convert_direct_samples(data, channels) ==
    IF channels = TARGET_CHANNELS /\ Len(data) % 2 = 0
    THEN [k \in 1 .. Len(data) |-> f32_to_i16(data[k])]
    ELSE direct_frames(data, channels, 0, <<>>)

\* i16::to_le_bytes: two's complement, low byte first
to_le_bytes(sample) ==
    LET unsigned == IF sample < 0 THEN sample + 65536 ELSE sample
    IN  <<unsigned % 256, unsigned \div 256>>

RECURSIVE bytes_of(_)
\* 218-221
bytes_of(output) ==
    IF output = <<>> THEN <<>> ELSE to_le_bytes(Head(output)) \o bytes_of(Tail(output))

\* 195-224 with needs_resample_rate() false: the chunk passed to try_send, or
\* None when the output is empty
handle_samples_direct(data, channels) ==
    LET output == convert_direct_samples(data, channels)
    IN  IF output = <<>> THEN None ELSE Some(bytes_of(output))

\* the buffers of whole frames the device delivers
DirectBuffers(channels) ==
    UNION {[1 .. n -> Samples] : n \in {m \in 0 .. MaxSamples : m % channels = 0}}

ProbeDirect ==
    /\ ~probe.pcm.called
    /\ \E channels \in 1 .. MaxChannels : \E data \in DirectBuffers(channels) :
          probe' = [probe EXCEPT !.pcm = [called |-> TRUE, data |-> data,
                                          channels |-> channels,
                                          chunk |-> handle_samples_direct(data, channels)]]
    /\ UNCHANGED <<now, stVars, watchVars, supVars, status, sessions, track>>

SpecDirect == InitResample /\ [][ProbeDirect]_vars

\* the bytes the quantization of a sample gives: the sample limited to
\* [-1, 1], times 32767, the fraction cut off, as little-endian i16
PcmOf(sample) ==
    LET limited == IF sample > 4 THEN 4 ELSE IF sample < -4 THEN -4 ELSE sample
        whole == IF limited >= 0 THEN (limited * 32767) \div 4
                 ELSE 0 - ((0 - limited) * 32767) \div 4
        word == (whole + 65536) % 65536
    IN  <<word % 256, word \div 256>>

\* C23: without resampling, the chunk of a stereo buffer is the quantization of
\* its samples, one by one and in order; [1.0, -1.0, 0.5, -0.5] gives
\* FF 7F 01 80 FF 3F 01 C0.
C23_DirectQuantized ==
    (probe.pcm.called /\ probe.pcm.channels = TARGET_CHANNELS /\ probe.pcm.data # <<>>)
    => /\ IsSome(probe.pcm.chunk)
       /\ Len(Unwrap(probe.pcm.chunk)) = 2 * Len(probe.pcm.data)
       /\ \A k \in DOMAIN probe.pcm.data :
             SubSeq(Unwrap(probe.pcm.chunk), 2 * k - 1, 2 * k) = PcmOf(probe.pcm.data[k])
       /\ probe.pcm.data = <<4, -4, 2, -2>>
             => Unwrap(probe.pcm.chunk) = <<255, 127, 1, 128, 255, 63, 1, 192>>

\* the buffer [1.0, -1.0, 0.5, -0.5] of a stereo device has been converted
C23_Witness ==
    /\ probe.pcm.called /\ probe.pcm.channels = TARGET_CHANNELS
    /\ probe.pcm.data = <<4, -4, 2, -2>>
    /\ probe.pcm.chunk = Some(<<255, 127, 1, 128, 255, 63, 1, 192>>)

(***************************************************************************)
(* audio.rs: LinearResampler on sample values.  pos is the numerator of a  *)
(* fraction over target_rate; an interpolated sample is the exact fraction *)
(* where the f32 of the code rounds (at a whole pos the fraction is the    *)
(* sample itself).  The rates are small numbers with the ratios of         *)
(* interest: below the target, twice the target, a little more than twice,  *)
(* four times the target.                                                  *)
(***************************************************************************)
MaxFrames == 5
LinearRates == {ProbeRate - 1, 2 * ProbeRate, 2 * ProbeRate + 1, 4 * ProbeRate}
\* the frames a device of `channels` channels delivers in these runs; channels
\* beyond the second are silent
LinearFrames(channels) ==
    IF channels = 1 THEN {<<0>>, <<4>>}
    ELSE {[k \in 1 .. channels |-> IF k <= 2 THEN lr[k] ELSE 0] :
              lr \in {<<0, 0>>, <<4, 4>>, <<4, 0>>}}

RECURSIVE flatten(_)
flatten(frames) == IF frames = <<>> THEN <<>> ELSE Head(frames) \o flatten(Tail(frames))

\* a loop that steps by one frame whatever the rates
RECURSIVE linear_emit_every_frame(_, _, _, _, _, _)
linear_emit_every_frame(pos, buffer, in_channels, in_rate, target_rate, out) ==
    IF pos + target_rate < (Len(buffer) \div in_channels) * target_rate
    THEN LET idx == pos \div target_rate
             a == map_channels(SubSeq(buffer, idx * in_channels + 1,
                                      (idx + 1) * in_channels), in_channels)
         IN  linear_emit_every_frame(pos + target_rate, buffer, in_channels, in_rate,
                                     target_rate,
                                     out \o <<f32_to_i16(a[1]), f32_to_i16(a[2])>>)
    ELSE [pos |-> pos, out |-> out]

RECURSIVE linear_emit(_, _, _, _, _, _)
\* 425-445: while a following frame is buffered, emit the frame interpolated at
\* pos and advance pos by in_rate / target_rate
linear_emit(pos, buffer, in_channels, in_rate, target_rate, out) ==
    IF pos + target_rate < (Len(buffer) \div in_channels) * target_rate
    THEN LET idx == pos \div target_rate
             frac == pos % target_rate
             a == map_channels(SubSeq(buffer, idx * in_channels + 1,
                                      (idx + 1) * in_channels), in_channels)
             b == map_channels(SubSeq(buffer, (idx + 1) * in_channels + 1,
                                      (idx + 2) * in_channels), in_channels)
             left == a[1] * target_rate + (b[1] - a[1]) * frac
             right == a[2] * target_rate + (b[2] - a[2]) * frac
         IN  linear_emit(pos + in_rate, buffer, in_channels, in_rate, target_rate,
                         out \o <<f32_to_i16_over(left, target_rate),
                                  f32_to_i16_over(right, target_rate)>>)
    ELSE [pos |-> pos, out |-> out]

\* 400-455 on the samples; capped tells that the buffer was cut to one second,
\* panicked that drain(0..drop_samples) reached beyond the buffer
LinearResampler_process_samples(linear, input, in_channels, in_rate, target_rate) ==
    IF input = <<>> \/ in_channels = 0
    THEN [linear |-> linear, out |-> <<>>, capped |-> FALSE, panicked |-> FALSE]
    ELSE LET extended == linear.buffer \o input
             max_samples == in_channels * target_rate
             over == Len(extended) > max_samples
             cut_samples == Len(extended) - max_samples
             cut_frames == cut_samples \div in_channels
             buffer == IF over THEN SubSeq(extended, cut_samples + 1, Len(extended))
                       ELSE extended
             pos == IF ~over THEN linear.pos
                    ELSE IF linear.pos - cut_frames * target_rate > 0
                         THEN linear.pos - cut_frames * target_rate ELSE 0
             done == linear_emit(pos, buffer, in_channels, in_rate, target_rate, <<>>)
             drop_frames == done.pos \div target_rate
             drop_samples == drop_frames * in_channels
         IN  IF drop_frames > 0 /\ drop_samples > Len(buffer)
             THEN [linear |-> [pos |-> done.pos, buffer |-> buffer],
                   out |-> done.out, capped |-> over, panicked |-> TRUE]
             ELSE [linear |-> [pos |-> done.pos - drop_frames * target_rate,
                               buffer |-> SubSeq(buffer, drop_samples + 1, Len(buffer))],
                   out |-> done.out, capped |-> over, panicked |-> FALSE]

\* Resampler::new in the Linear mode: pos = 0 and an empty buffer; fed and out
\* are the frames delivered and the samples emitted so far
ProbeLinearNew ==
    /\ ~probe.lin.built
    /\ \E in_channels \in 1 .. MaxChannels, in_rate \in LinearRates :
          probe' = [probe EXCEPT !.lin =
                       [built |-> TRUE, channels |-> in_channels, in_rate |-> in_rate,
                        target_rate |-> ProbeRate, linear |-> [pos |-> 0, buffer |-> <<>>],
                        fed |-> <<>>, out |-> <<>>, calls |-> 0, capped |-> FALSE,
                        panicked |-> FALSE]]
    /\ UNCHANGED <<now, stVars, watchVars, supVars, status, sessions, track>>

\* the device calls back with a buffer of whole frames; after a panic the lock
\* is poisoned and no callback reaches the resampler
ProbeLinearProcess ==
    /\ probe.lin.built /\ ~probe.lin.panicked
    /\ \E n \in 1 .. MaxFrames - Len(probe.lin.fed) :
       \E frames \in [1 .. n -> LinearFrames(probe.lin.channels)] :
          LET r == LinearResampler_process_samples(probe.lin.linear, flatten(frames),
                                                   probe.lin.channels, probe.lin.in_rate,
                                                   probe.lin.target_rate)
          IN  probe' = [probe EXCEPT !.lin.linear = r.linear,
                                     !.lin.fed = @ \o frames,
                                     !.lin.out = @ \o r.out,
                                     !.lin.calls = @ + 1,
                                     !.lin.capped = @ \/ r.capped,
                                     !.lin.panicked = r.panicked]
    /\ UNCHANGED <<now, stVars, watchVars, supVars, status, sessions, track>>

SpecLinear == InitResample /\ [][ProbeLinearNew \/ ProbeLinearProcess]_vars

\* the samples the frames at the even indices 0, 2, 4, ... quantize to, for the
\* frames that have a follower
EvenFrames(fed, channels) ==
    flatten([k \in 1 .. Len(fed) \div 2 |->
                LET frame == fed[2 * k - 1]
                    left == frame[1]
                    right == IF channels = 1 THEN frame[1] ELSE frame[2]
                IN  <<(left * I16_MAX) \div 4, (right * I16_MAX) \div 4>>])

\* C34 as stated: at in_rate = 2 * target_rate the output is, for any split of
\* the input into buffers, the frames at the even indices in order, each
\* emitted once a following frame has arrived; pos is then 0 and the buffer
\* holds the last frame when the number of frames is odd.
C34_EvenFramesAnySplit ==
    (probe.lin.built /\ probe.lin.in_rate = 2 * probe.lin.target_rate)
    => /\ probe.lin.out = EvenFrames(probe.lin.fed, probe.lin.channels)
       /\ probe.lin.linear.pos = 0
       /\ Len(probe.lin.linear.buffer) = (Len(probe.lin.fed) % 2) * probe.lin.channels

\* C34: the same for the splits in which no callback brings the buffer above
\* channels * target_rate samples; the four stereo frames [0,0, 1,1, 0,0, 1,1]
\* in one buffer give [0,0], [0,0] and leave pos = 0 and an empty buffer.
C34_EvenFrames ==
    (/\ probe.lin.built /\ probe.lin.in_rate = 2 * probe.lin.target_rate
     /\ ~probe.lin.capped)
    => /\ probe.lin.out = EvenFrames(probe.lin.fed, probe.lin.channels)
       /\ probe.lin.linear.pos = 0
       /\ Len(probe.lin.linear.buffer) = (Len(probe.lin.fed) % 2) * probe.lin.channels
       /\ (/\ probe.lin.channels = 2 /\ probe.lin.calls = 1
           /\ probe.lin.fed = <<<<0, 0>>, <<4, 4>>, <<0, 0>>, <<4, 4>>>>)
          => /\ probe.lin.out = <<0, 0, 0, 0>>
             /\ probe.lin.linear = [pos |-> 0, buffer |-> <<>>]

\* the frames [1,1], [1,0], [0,0], [1,1] in two buffers of one and three
\* frames gave [1,1] and [0,0]
C34_Witness ==
    /\ probe.lin.built /\ probe.lin.in_rate = 2 * probe.lin.target_rate
    /\ probe.lin.channels = 2 /\ probe.lin.calls = 2 /\ ~probe.lin.capped
    /\ probe.lin.fed = <<<<4, 4>>, <<4, 0>>, <<0, 0>>, <<4, 4>>>>
    /\ probe.lin.out = <<32767, 32767, 0, 0>>

\* C38: whatever the rates, the channel count and the buffer lengths, the
\* prefix truncation stays within the buffer: the callback does not fail, and
\* after it 0 <= pos < 1 and the buffer holds at most channels * target_rate
\* samples.
C38_TruncationInBounds ==
    probe.lin.built
    => /\ ~probe.lin.panicked
       /\ probe.lin.linear.pos >= 0
       /\ probe.lin.linear.pos < probe.lin.target_rate
       /\ Len(probe.lin.linear.buffer) <= probe.lin.channels * probe.lin.target_rate

(***************************************************************************)
(* audio.rs: observed-rate tracking.  The resampler of the callback with   *)
(* its accumulator (rate_frames, rate_start) under the clock `now`.        *)
(* sinc_in_rate is the input rate the sinc library object was built for.   *)
(* seen is the resampler as observe_input leaves it, before process() of   *)
(* the same callback; did tells what observe_input did; reset_at is the    *)
(* time of the latest DSP reset.                                           *)
(***************************************************************************)
RATE_WINDOW_MS == 2000
RATE_LOG_MS == 10000
\* frames per callback: a single frame, two seconds of a slow device, two
\* seconds of the target rate
TrackFrames == {1, 2 * (ProbeRate - 1), 2 * ProbeRate}

\* in these runs the sinc library answers every call with one frame per channel
TrackAnswers == {<<[ok |-> TRUE, output |-> <<1, 1>>]>>}

\* (frames / seconds).round() for a time in milliseconds
observed_rate(rate_frames, elapsed_ms) ==
    (2 * rate_frames * 1000 + elapsed_ms) \div (2 * elapsed_ms)

\* 356-379, 395-398, 482-488
reset_resampler(rs) ==
    IF rs.mode = "Linear" THEN [rs EXCEPT !.linear = LinearResampler_new]
    ELSE [rs EXCEPT !.sinc = SincResampler_new, !.sinc_in_rate = rs.in_rate]

\* an observe_input that evaluates without starting a new measurement
observe_input_at_keeps_measuring(rs, samples, in_channels, at) ==
    LET frames == samples \div in_channels
        counted == [rs EXCEPT !.rate_frames = @ + frames]
        observed == observed_rate(counted.rate_frames, at - rs.rate_start)
    IN  IF at - rs.rate_start < RATE_WINDOW_MS THEN counted
        ELSE IF observed = 0 THEN counted
        ELSE IF observed # rs.in_rate
        THEN reset_resampler([counted EXCEPT !.in_rate = observed, !.last_rate_log = at])
        ELSE counted

\* 320-354 at the time `at`
observe_input_at(rs, samples, in_channels, at) ==
    LET frames == samples \div in_channels
        counted == [rs EXCEPT !.rate_frames = @ + frames]
        observed == observed_rate(counted.rate_frames, at - rs.rate_start)
        restarted(r) == [r EXCEPT !.rate_frames = 0, !.rate_start = at]
    IN  IF at - rs.rate_start < RATE_WINDOW_MS THEN counted
        ELSE IF observed = 0 THEN counted
        ELSE IF observed # rs.in_rate
        THEN restarted(reset_resampler([counted EXCEPT !.in_rate = observed,
                                                       !.last_rate_log = at]))
        ELSE IF at - rs.last_rate_log >= RATE_LOG_MS
        THEN restarted([counted EXCEPT !.last_rate_log = at])
        ELSE restarted(counted)

\* the part of the resampler the tracking is about
Tracked(rs) ==
    [in_rate |-> rs.in_rate, linear |-> rs.linear, sinc |-> rs.sinc,
     sinc_in_rate |-> rs.sinc_in_rate, rate_frames |-> rs.rate_frames,
     rate_start |-> rs.rate_start]

\* 195-224 at the time `at`
handle_samples_f32_at(rs, data, at, answers) ==
    IF rs.poisoned
    THEN [rs EXCEPT !.calls = @ + 1, !.data = data, !.offered = None, !.did = "nothing"]
    ELSE LET seen == observe_input_at(rs, data, rs.channels, at)
             evaluated == at - rs.rate_start >= RATE_WINDOW_MS
             observed == observed_rate(rs.rate_frames + data \div rs.channels,
                                       at - rs.rate_start)
             r == IF needs_resample_rate(seen)
                  THEN Resampler_process(seen, data, seen.channels, answers)
                  ELSE [rs |-> seen, out |-> convert_direct_to_i16(data, seen.channels)]
         IN  [r.rs EXCEPT !.calls = @ + 1, !.data = data,
                          !.offered = IF r.out = 0 \/ r.rs.poisoned THEN None
                                      ELSE Some(2 * r.out),
                          !.seen = Tracked(seen),
                          !.observed = IF evaluated THEN Some(observed) ELSE None,
                          !.did = IF ~evaluated THEN "counted"
                                  ELSE IF observed = 0 THEN "zero"
                                  ELSE IF observed # rs.in_rate THEN "reset"
                                  ELSE "matched",
                          !.resets = IF evaluated /\ observed # 0 /\ observed # rs.in_rate
                                     THEN @ + 1 ELSE @,
                          !.reset_at = IF evaluated /\ observed # 0 /\ observed # rs.in_rate
                                       THEN Some(at) ELSE @]

\* 268-294: Resampler::new reads the clock for rate_start and last_rate_log
ProbeTrackNew ==
    /\ ~probe.trk.built
    /\ \E mode \in ResamplerModes, in_channels \in 1 .. MaxChannels, in_rate \in InRates :
          LET rs == Resampler_new(in_rate, in_channels, ProbeRate, mode)
          IN  probe' = [probe EXCEPT !.trk =
                  [built |-> TRUE, poisoned |-> FALSE, mode |-> mode,
                   channels |-> in_channels, in_rate |-> in_rate,
                   target_rate |-> ProbeRate, linear |-> rs.linear, sinc |-> rs.sinc,
                   sinc_in_rate |-> in_rate, calls |-> 0, data |-> 0, offered |-> None,
                   rate_frames |-> 0, rate_start |-> now, last_rate_log |-> now,
                   seen |-> None, observed |-> None, did |-> "nothing", resets |-> 0,
                   reset_at |-> None]]
    /\ UNCHANGED <<now, stVars, watchVars, supVars, status, sessions, track>>

\* the device calls back with a buffer of whole frames
ProbeTrackSamples ==
    /\ probe.trk.built /\ probe.trk.calls < MaxCallbacks
    /\ \E frames \in TrackFrames, answers \in TrackAnswers :
          probe' = [probe EXCEPT !.trk =
                       handle_samples_f32_at(@, frames * probe.trk.channels, now, answers)]
    /\ UNCHANGED <<now, stVars, watchVars, supVars, status, sessions, track>>

NextTrack == ProbeTrackNew \/ ProbeTrackSamples \/ Tick
SpecTrack == InitResample /\ [][NextTrack]_vars

\* a callback that reached observe_input
TrackCallback ==
    /\ probe.trk.built /\ ~probe.trk.poisoned
    /\ probe'.trk.calls = probe.trk.calls + 1

\* the DSP state of the mode as reset_resampler leaves it for the rate r
FreshFor(seen, mode, r) ==
    IF mode = "Linear" THEN seen.linear = LinearResampler_new
    ELSE seen.sinc = SincResampler_new /\ seen.sinc_in_rate = r

\* C35 as stated: an evaluation happens only after 2 s of accumulation; when
\* the rounded observed rate differs from in_rate, in_rate takes it and the DSP
\* state is reset; every evaluation restarts the accumulator.
C35_EveryEvaluationRestarts ==
    [][TrackCallback =>
         LET waited == now - probe.trk.rate_start
             observed == observed_rate(probe.trk.rate_frames
                                           + probe'.trk.data \div probe.trk.channels,
                                       waited)
             seen == probe'.trk.seen
         IN  /\ waited < RATE_WINDOW_MS
                => /\ seen.in_rate = probe.trk.in_rate
                   /\ seen.rate_start = probe.trk.rate_start
             /\ waited >= RATE_WINDOW_MS
                => /\ seen.rate_frames = 0 /\ seen.rate_start = now
                   /\ observed # probe.trk.in_rate
                      => /\ seen.in_rate = observed
                         /\ probe'.trk.in_rate = observed
                         /\ FreshFor(seen, probe.trk.mode, observed)]_vars

\* C35: an evaluation happens only after 2 s of accumulation; when the rounded
\* observed rate is not 0 and differs from in_rate, in_rate takes it and the
\* DSP state is reset (linear: pos 0 and an empty buffer; sinc: rebuilt for the
\* new ratio with empty pending buffers); every evaluation with a rate other
\* than 0 restarts the accumulator, one with the rate 0 changes nothing but
\* the frame count; two DSP resets are never less than 2 s apart.
C35_RateTracking ==
    [][TrackCallback =>
         LET waited == now - probe.trk.rate_start
             observed == observed_rate(probe.trk.rate_frames
                                           + probe'.trk.data \div probe.trk.channels,
                                       waited)
             seen == probe'.trk.seen
             before == Tracked(probe.trk)
             counted == [before EXCEPT !.rate_frames =
                                           @ + probe'.trk.data \div probe.trk.channels]
         IN  /\ (waited < RATE_WINDOW_MS \/ observed = 0) => seen = counted
             /\ (waited >= RATE_WINDOW_MS /\ observed # 0)
                => /\ seen.rate_frames = 0 /\ seen.rate_start = now
                   /\ observed = probe.trk.in_rate
                      => seen = [before EXCEPT !.rate_frames = 0, !.rate_start = now]
                   /\ observed # probe.trk.in_rate
                      => /\ seen.in_rate = observed
                         /\ probe'.trk.in_rate = observed
                         /\ FreshFor(seen, probe.trk.mode, observed)
                         /\ probe'.trk.resets = probe.trk.resets + 1
                         /\ IsSome(probe.trk.reset_at)
                            => now - Unwrap(probe.trk.reset_at) >= RATE_WINDOW_MS
             /\ probe'.trk.resets # probe.trk.resets
                => (waited >= RATE_WINDOW_MS /\ observed \notin {0, probe.trk.in_rate})]_vars

\* a sinc resampler was rebuilt at 2 s and again at 4 s
C35_Witness ==
    /\ probe.trk.built /\ probe.trk.mode = "SincFast"
    /\ probe.trk.resets = 2 /\ probe.trk.reset_at = Some(4000)
    /\ probe.trk.did = "reset" /\ now = 4000

(***************************************************************************)
(* health.rs: the health writer.  log has one entry per attempt: the time, *)
(* the outcome and whether a warning was logged.                           *)
(***************************************************************************)
MaxAttempts == 4
HEALTH_PERIOD_MS == 5000
HealthOutcomes == {"serialize_err", "write_err", "ok"}

\* a writer that warns at every failure
health_warns_every_failure(last_write_ok, outcome) == outcome # "ok"

\* 28-32, 37-41: a failure is logged when the previous attempt did not fail
health_warns(last_write_ok, outcome) == outcome # "ok" /\ last_write_ok

\* 25-44: one pass of the loop up to its sleep
HealthAttempt ==
    /\ probe.health.pc = "attempt"
    /\ Len(probe.health.log) < MaxAttempts
    /\ \E outcome \in HealthOutcomes :
          probe' = [probe EXCEPT
                       !.health.pc = "sleep",
                       !.health.last_write_ok = (outcome = "ok"),
                       !.health.log = Append(@,
                           [at |-> now, outcome |-> outcome,
                            warned |-> health_warns(probe.health.last_write_ok, outcome)])]
    /\ UNCHANGED <<now, stVars, watchVars, supVars, status, sessions, track>>

\* 33-34, 45: the sleep of 5 s ends and the loop starts over
HealthSleep ==
    /\ probe.health.pc = "sleep"
    /\ now' = now + HEALTH_PERIOD_MS
    /\ probe' = [probe EXCEPT !.health.pc = "attempt"]
    /\ UNCHANGED <<stVars, watchVars, supVars, status, sessions, track>>

SpecHealth == InitResample /\ [][HealthAttempt \/ HealthSleep]_vars

\* C36: a failed attempt is logged exactly when it is the first attempt after
\* startup or follows a successful write, so that at most one warning lies
\* between two successful writes; the attempts follow one another at 5 s, and
\* after a failed attempt as after a successful one the writer goes on.
C36_OneWarningPerOutage ==
    LET log == probe.health.log
    IN  /\ \A k \in 1 .. Len(log) :
              /\ log[k].warned <=> /\ log[k].outcome # "ok"
                                   /\ (k = 1 \/ log[k - 1].outcome = "ok")
              /\ k > 1 => log[k].at = log[k - 1].at + HEALTH_PERIOD_MS
        /\ \A j, k \in 1 .. Len(log) :
              (j < k /\ log[j].warned /\ log[k].warned)
                  => \E m \in j + 1 .. k - 1 : log[m].outcome = "ok"
        /\ probe.health.pc = "sleep" => ENABLED HealthSleep

\* a write failed with a warning, the next attempt failed silently, a write
\* succeeded, and the failure after it was logged again
C36_Witness ==
    /\ Len(probe.health.log) = 4
    /\ [k \in 1 .. 4 |-> probe.health.log[k].outcome]
           = <<"write_err", "serialize_err", "ok", "write_err">>
    /\ [k \in 1 .. 4 |-> probe.health.log[k].warned] = <<TRUE, FALSE, FALSE, TRUE>>

\* C37: at most one ingest task is live: when the supervisor has started a new
\* capture session and spawned its task, every earlier task has returned or
\* been aborted, so no two tasks hold a transport or write the Status
\* Register side by side.
C37_OneSessionLive ==
    \A i, j \in DOMAIN sessions :
        (sessions[i].task = "running" /\ sessions[j].task = "running") => i = j

\* C39: a status reply whose merge leaves every field of the runtime
\* configuration at its value publishes nothing: the configuration watch and
\* the VAD watch keep their values and their unseen marks, so the supervisor
\* is not woken and no ingest task sees a VAD update.
C39_SameReplyPublishesNothing ==
    [][(Merged /\ runtime' = runtime)
           => /\ UNCHANGED <<config_watch, config_unseen, vad_watch, vad_version>>
              /\ \A i \in DOMAIN sessions :
                    sessions'[i].vad_unseen = sessions[i].vad_unseen]_vars

\* a reply that repeats the configuration was merged while a session runs:
\* nothing has been published since the start and the supervisor waits on
C39_Witness ==
    /\ st_pc = "sleeping" /\ IsSome(reply)
    /\ Unwrap(reply).assigned_input_id = runtime.assigned_input_id
    /\ vad_version = 0 /\ ~config_unseen
    /\ sup_pc = "select"
    /\ cur \in DOMAIN sessions /\ sessions[cur].task = "running"
    /\ sessions[cur].conn /\ ~sessions[cur].vad_unseen

(***************************************************************************)
(* The status exchange with failing POSTs while track_change edges are     *)
(* raised in the Status Register.                                          *)
(***************************************************************************)
NextEdges ==
    \/ track.reads < MaxPosts /\ StatusSnapshot
    \/ \E response \in IngestReplies : StatusPostOk(response)
    \/ StatusPostErr
    \/ \E new_devices \in DeviceLists : StatusWake(new_devices)
    \/ ProbeSetTrackChange
    \/ TickShift
SpecEdges == InitWith(IngestReplies, DeviceLists) /\ [][NextEdges]_vars

\* C40: a track_change edge survives a failed exchange: when the POST that
\* carries track_change = true fails, the edge is still raised in the Status
\* Register afterwards, so that the next POST carries it again.
C40_FailedPostKeepsEdge ==
    [][(/\ st_pc = "posting" /\ st_pc' = "sleeping" /\ reply' = None
        /\ Unwrap(snapshot).track_change = Some(TRUE))
           => status'.track_change]_vars

====
